---------------------------- MODULE Spec2Model ----------------------------
(***************************************************************************)
(* Tile atlas compression and hardware tilemap layout of butano-auxiliary. *)
(*                                                                         *)
(* The module holds several specifications over one set of variables:      *)
(*   SpecDedup   compare_tiles and create_rgb_tilemap_image on an atlas    *)
(*   SpecSize    create_compressed_tileset, step by step, on the counts    *)
(*               of an atlas (unique tiles, distinct colours)              *)
(*   SpecBuild   the main program: consolidated atlases, then every map    *)
(*   SpecRemap   the remapping loop of MapObject.calculate_tilemap_data    *)
(*   SpecPalette create_tilemap_palette (both variants) on a pixel image   *)
(*   SpecDepth   create_compressed_tileset on atlases of many colours, up   *)
(*               to the bit depth written to the JSON files                *)
(*   SpecScan    compare_tiles, one candidate of its outer loops a step    *)
(*   SpecAddress the addressing arithmetic of the remapping loop on maps   *)
(*               and atlases of any small size and factor                  *)
(*   SpecTraverse the cursor of the remapping loop alone, on maps with and *)
(*               without the screenblock traversal                        *)
(*   SpecFormat  compare_tiles and create_rgb_tilemap_image on atlases     *)
(*               whose sides need not be multiples of 8                    *)
(* Variables a specification does not use stay at their initial value.     *)
(***************************************************************************)
EXTENDS Integers, Sequences, FiniteSets, TLC

VARIABLES
    pc,                 \* position of the running specification
    \* ---- deduplication (tilemap_compressor.compare_tiles and friends)
    tilemap_src,        \* the atlas image: [width, height, cells]
    tilemap_tiles,      \* the dedup table, one record per cell, raster order
    candidate,          \* compare_tiles' outer loops: raster index y*columns+x
    unique_tile_count,  \* result of compare_tiles
    min_size,           \* <<tilemap_min_width, tilemap_min_height>> or None
    min_rgb,            \* the compacted canvas, one tile per slot, raster order
    \* ---- create_compressed_tileset on the counts of an atlas
    colour_count,       \* number of distinct colours of the compacted atlas
    written,            \* the files written so far
    printed,            \* the messages printed so far, numbers apart
    \* ---- the main program
    config,             \* the flags of config.py the program reads
    map_data,           \* what get_map_data returned: the consolidated atlases
    combined_tilemap,   \* map -> the consolidated atlas it may share, or {}
    returned,           \* atlas -> what create_tilemap did and returned for it
    compiled_from,      \* map -> the atlas MapObject.init took, {} before it
    pending,            \* the iterations the two loops have still to run
    \* ---- the remapping loop
    Map,                \* the MapObject: sizes, factor, dedup table, layer
    i, k,               \* the cursor and the run counter
    screenblock_2nd_half,
    emitted,            \* number of codes emitted so far
    last,               \* what the last iteration computed
    visited,            \* the positions SpecTraverse has emitted a code at
    \* ---- the palette
    image,              \* an image as [width, height, pixels] (raster order)
    palette_list,       \* the palette returned, <<>> before it
    variant,            \* which create_tilemap_palette produced it
    bpp_mode,           \* the <<file, "bpp_mode" value>> pairs written so far
    \* ---- the files create_tilemap looks at before it compiles
    clock,              \* the time the file system stamps a change with
    sources,            \* source image -> [version, ctime]
    artifacts,          \* the sidecar and the bitmap of the last generation
    \* ---- results of the functions that are followed on their own
    length,             \* the argument of calculate_unordered_map_size
    map_size,           \* what calculate_unordered_map_size returned
    tilemap_min_p,      \* the paletted atlas: pixel -> palette index
    tilelist            \* the text of the layer's tile list

dedupVars ==
    <<tilemap_src, tilemap_tiles, candidate, unique_tile_count, min_size, min_rgb>>
sizeVars  == <<colour_count, written, printed>>
buildVars == <<config, map_data, combined_tilemap, returned, compiled_from, pending>>
remapVars == <<Map, i, k, screenblock_2nd_half, emitted, last, visited>>
palVars   == <<image, palette_list, variant, bpp_mode>>
cacheVars == <<clock, sources, artifacts>>
miscVars == <<length, map_size, tilemap_min_p, tilelist>>
vars == <<pc, dedupVars, sizeVars, buildVars, remapVars, palVars, cacheVars, miscVars>>

None == "None"

(***************************************************************************)
(* Program constants.                                                      *)
(***************************************************************************)
TileSize == 8            \* pixels per tile side
H_FLIP == 1024
V_FLIP == 2048
TileCapacity == 960      \* unique tiles a compacted atlas may hold
Tier1Tiles == 256
Tier2Tiles == 512
BasePixels == 128        \* side of the smallest canvas
WidePixels == 256        \* width of the third tier's canvas
Tier2Step == 16          \* tiles per extra column of the second tier
Tier3Step == 32          \* tiles per extra row of the third tier
PaletteCapacity == 256   \* colours a palette may hold
Bpp4Colours == 16        \* colours a 4 bit palette may hold

(***************************************************************************)
(* Bounds of the model.                                                    *)
(***************************************************************************)
MaxCells == 4            \* an atlas of SpecDedup has at most this many cells
Over == 2                \* SpecSize counts up to TileCapacity + Over unique tiles
MaxMaps == 3             \* maps of a project in SpecBuild
DepthCells == 5          \* cells of an atlas of SpecDepth
FormatCells == 2         \* whole cells of an atlas of SpecFormat, at most
MaxFactor == 3           \* tile-size factors of SpecAddress: 1 .. MaxFactor
MaxSide == 3             \* sides of its maps and atlases, in tiles of the map
NewColours == {1, 4}     \* colours a cell of such an atlas may bring

(***************************************************************************)
(* Colours are RGB triples.                                                *)
(***************************************************************************)
Black == <<0, 0, 0>>
Pink  == <<255, 0, 255>>
Red   == <<255, 0, 0>>

(***************************************************************************)
(* Tiles.  A tile of the model is written as its four quadrant colours     *)
(* <<top-left, top-right, bottom-left, bottom-right>>; its pixels are the  *)
(* 8x8 block those quadrants fill.  Images are read pixel by pixel.        *)
(***************************************************************************)
Coord == 0 .. (TileSize - 1)
Pos == Coord \X Coord                \* <<x, y>>: column, row

QuadPixel(q, x, y) ==
    LET half == TileSize \div 2
    IN  q[(IF y < half THEN 0 ELSE 2) + (IF x < half THEN 1 ELSE 2)]

Uniform(c) == <<c, c, c, c>>

TileFamily ==
    { Uniform(Black),
      <<Red, Black, Black, Black>>, <<Black, Red, Black, Black>>,
      <<Black, Black, Red, Black>>, <<Black, Black, Black, Red>>,
      <<Red, Red, Black, Black>>, <<Black, Black, Red, Red>> }

\* The left-right mirror and the top-bottom flip of a tile, on its quadrants.
QuadMirror(q) == <<q[2], q[1], q[4], q[3]>>
QuadFlip(q) == <<q[3], q[4], q[1], q[2]>>

\* Tiles of many colours, for the palette: Shade(n) is the n-th grey, and
\* PartialTile(b, n) is a tile that brings n colours no other cell b' # b
\* brings: its first n quadrants hold one new grey each, the others repeat
\* the first.
Shade(n) == <<n, n, n>>
PartialTile(b, n) ==
    << Shade(4 * b + 1),
       Shade(4 * b + (IF 2 <= n THEN 2 ELSE 1)),
       Shade(4 * b + (IF 3 <= n THEN 3 ELSE 1)),
       Shade(4 * b + (IF 4 <= n THEN 4 ELSE 1)) >>
DepthFamily ==
    { PartialTile(b, n) : b \in 0 .. (DepthCells - 1), n \in NewColours }
        \cup { QuadMirror(PartialTile(0, n)) : n \in NewColours }

\* An image is held as [width, height, cells]: cells[s] is the tile at slot s
\* (raster order, from 1).  A canvas made by Image.new also has a field fill,
\* the colour of every slot nothing has been pasted on.
CellAt(img, slot) ==
    IF slot \in DOMAIN img.cells THEN img.cells[slot] ELSE Uniform(img.fill)

\* Image.getpixel.
getpixel(img, x, y) ==
    LET columns == img.width \div TileSize
    IN  QuadPixel(CellAt(img, (y \div TileSize) * columns + (x \div TileSize) + 1),
                  x % TileSize, y % TileSize)

\* The 64 pixels of every tile an image of the model can hold, by quadrants.
KnownTiles == TileFamily \cup { Uniform(Black), Uniform(Red) } \cup DepthFamily
TilePixels == [q \in KnownTiles |-> [p \in Pos |-> QuadPixel(q, p[1], p[2])]]

\* Image.crop of the 8x8 region whose top-left pixel is <<x0, y0>>; the
\* regions the program crops are whole cells.
crop(img, x0, y0) ==
    TilePixels[CellAt(img, (y0 \div TileSize) * (img.width \div TileSize)
                            + (x0 \div TileSize) + 1)]

\* ImageOps.flip: top-bottom flip.
flip(t) == [p \in Pos |-> t[<<p[1], TileSize - 1 - p[2]>>]]

\* Image.rotate(180).
rotate180(t) == [p \in Pos |-> t[<<TileSize - 1 - p[1], TileSize - 1 - p[2]>>]]

\* ImageOps.mirror: left-right flip (used to state the round trip).
mirror(t) == [p \in Pos |-> t[<<TileSize - 1 - p[1], p[2]>>]]

\* tile_compare: every pixel equal in every channel.
tile_compare(left, right) ==
    \A x \in Coord : \A y \in Coord :
        ~ \E ch \in 1..3 : left[<<x, y>>][ch] - right[<<x, y>>][ch] # 0


(***************************************************************************)
(* compare_tiles.                                                          *)
(***************************************************************************)
NewTile ==
    [unique |-> TRUE, relative |-> <<0, 0>>, h_flipped |-> FALSE,
     v_flipped |-> FALSE, non_unique_tile_count |-> 0]

Columns(img) == img.width \div TileSize      \* int(width / 8)
Rows(img) == img.height \div TileSize        \* int(height / 8)

\* InnerSkip with the bound off by one: the candidate is compared with itself.
InnerSkipItself(x, y, j, ii) == j = y /\ ii < x

\* The inner scan's "continue" for cells at or before the candidate.
InnerSkip(x, y, j, ii) == j = y /\ ii <= x

\* MarkTile that forgets the h_flipped assignments.
MarkTileNoH(rec, x, y, h, v) ==
    [rec EXCEPT !.unique = FALSE,
                !.relative = <<x, y>>,
                !.v_flipped = IF v THEN TRUE ELSE @]

\* The four assignment blocks of the inner scan, on the record of the
\* compared cell: flags are only ever set.
MarkTile(rec, x, y, h, v) ==
    [rec EXCEPT !.unique = FALSE,
                !.relative = <<x, y>>,
                !.h_flipped = IF h THEN TRUE ELSE @,
                !.v_flipped = IF v THEN TRUE ELSE @]

\* FirstMatch without its fourth comparison.
FirstMatchNoMirror(tile, comp) ==
    IF tile_compare(tile, comp) THEN "identity"
    ELSE IF tile_compare(tile, flip(comp)) THEN "flip"
    ELSE IF tile_compare(tile, rotate180(comp)) THEN "rotate180"
    ELSE "none"

\* FirstMatch without its second comparison.
FirstMatchNoFlip(tile, comp) ==
    IF tile_compare(tile, comp) THEN "identity"
    ELSE IF tile_compare(tile, rotate180(comp)) THEN "rotate180"
    ELSE IF tile_compare(tile, flip(rotate180(comp))) THEN "rotate180_flip"
    ELSE "none"

\* FirstMatch with the second and third comparisons in the other order.
FirstMatchRotationFirst(tile, comp) ==
    IF tile_compare(tile, comp) THEN "identity"
    ELSE IF tile_compare(tile, rotate180(comp)) THEN "rotate180"
    ELSE IF tile_compare(tile, flip(comp)) THEN "flip"
    ELSE IF tile_compare(tile, flip(rotate180(comp))) THEN "rotate180_flip"
    ELSE "none"

\* The chain of four comparisons of the inner loop's body, on the pixels of
\* the candidate tile and of the compared tile: the first transform of the
\* compared tile that equals the candidate, in the order of the source.
FirstMatch(tile, comp) ==
    IF tile_compare(tile, comp) THEN "identity"
    ELSE IF tile_compare(tile, flip(comp)) THEN "flip"
    ELSE IF tile_compare(tile, rotate180(comp)) THEN "rotate180"
    ELSE IF tile_compare(tile, flip(rotate180(comp))) THEN "rotate180_flip"
    ELSE "none"

\* FirstMatch depends on the two blocks of pixels only: it is tabulated once
\* per pair of tile contents instead of once per pair of cells.
MatchTable ==
    [a \in KnownTiles, b \in KnownTiles |-> FirstMatch(TilePixels[a], TilePixels[b])]

\* One pass of the inner loop's body: candidate <<x, y>> against cell
\* <<ii, j>>, whose record is rec; the record the pass leaves for that cell.
CompareCell(rec, src, x, y, j, ii) ==
    LET m == MatchTable[src.cells[y * Columns(src) + x + 1],
                        src.cells[j * Columns(src) + ii + 1]]
    IN  IF InnerSkip(x, y, j, ii) THEN rec
        ELSE IF m = "identity" THEN MarkTile(rec, x, y, FALSE, FALSE)
        ELSE IF m = "flip" THEN MarkTile(rec, x, y, FALSE, TRUE)
        ELSE IF m = "rotate180" THEN MarkTile(rec, x, y, TRUE, TRUE)
        ELSE IF m = "rotate180_flip" THEN MarkTile(rec, x, y, TRUE, FALSE)
        ELSE rec

\* for j in range(y,rows): for i in range(columns): ...  Every pass writes
\* the record of the compared cell only and reads the candidate's pixels
\* only, so the scan is the table of what each pass leaves for its cell.
InnerLoop(tt, src, x, y) ==
    [c \in 1 .. Len(tt) |->
        LET j  == (c - 1) \div Columns(src)
            ii == (c - 1) % Columns(src)
        IN  IF j \in y .. (Rows(src) - 1)
                THEN CompareCell(tt[c], src, x, y, j, ii)
            ELSE tt[c]]

\* IsCandidate that lets every cell be a candidate.
IsCandidateAlways(rec) == TRUE

\* if not tilemap_tiles[y*columns+x]['unique']: continue
IsCandidate(rec) == rec.unique

\* for x in range(columns): the candidates of row y; non-unique ones are
\* skipped.
RECURSIVE CandidateLoop(_, _, _, _)
CandidateLoop(tt, src, x, y) ==
    IF x >= Columns(src) THEN tt
    ELSE IF ~ IsCandidate(tt[y * Columns(src) + x + 1])
        THEN CandidateLoop(tt, src, x + 1, y)
    ELSE CandidateLoop(InnerLoop(tt, src, x, y), src, x + 1, y)

\* for y in range(rows): ...
RECURSIVE OuterLoop(_, _, _)
OuterLoop(tt, src, y) ==
    IF y >= Rows(src) THEN tt
    ELSE OuterLoop(CandidateLoop(tt, src, 0, y), src, y + 1)

\* The counting loop at the end of compare_tiles.
RECURSIVE CountUnique(_, _)
CountUnique(tt, n) ==
    IF n = 0 THEN 0
    ELSE CountUnique(tt, n - 1) + (IF tt[n].unique THEN 1 ELSE 0)

compare_tiles(src) ==
    LET n  == Rows(src) * Columns(src)
        tt == OuterLoop([c \in 1..n |-> NewTile], src, 0)
    IN  [tiles |-> tt, count |-> CountUnique(tt, n)]

(***************************************************************************)
(* get_tilemap_size and create_rgb_tilemap_image.                          *)
(***************************************************************************)
\* int(a/b + 1) of the source, for a >= 0: float division, truncation.
IntDivPlus1(a, b) == (a \div b) + 1

get_tilemap_size(tile_count) ==
    IF tile_count <= Tier1Tiles THEN <<BasePixels, BasePixels>>
    ELSE IF tile_count <= Tier2Tiles THEN
        <<BasePixels + IntDivPlus1(tile_count - Tier1Tiles, Tier2Step) * TileSize,
          BasePixels>>
    ELSE \* tile_count <= 960: the caller has checked it
        <<WidePixels,
          BasePixels + IntDivPlus1(tile_count - Tier2Tiles, Tier3Step) * TileSize>>

\* Image.new('RGB', (w, h), colour).
NewImage(w, h, colour) == [width |-> w, height |-> h, fill |-> colour, cells |-> <<>>]

\* min_rgb.paste(original.crop(cell <<x, y>>), slot <<j, i>>); PIL clips a
\* region that lies outside the canvas.
paste(canvas, original, x, y, jj, ir) ==
    IF ir * TileSize >= canvas.height \/ jj * TileSize >= canvas.width THEN canvas
    ELSE [canvas EXCEPT !.cells =
              ((ir * Columns(canvas) + jj + 1) :> CellAt(original, y * Columns(original) + x + 1))
                  @@ canvas.cells]

\* if j >= tilemap.min_width/8, one column late.
RowFullLate(j, min_width) == j * TileSize > min_width

\* if j >= tilemap.min_width/8
RowFull(j, min_width) == j * TileSize >= min_width

\* NonUniqueAfter that counts every cell.
NonUniqueAfterAny(non_unique_tiles, unique) == non_unique_tiles + 1

\* else: non_unique_tiles += 1
NonUniqueAfter(non_unique_tiles, unique) ==
    IF unique THEN non_unique_tiles ELSE non_unique_tiles + 1

\* The body of the loops of create_rgb_tilemap_image for cell <<x, y>>;
\* st = [canvas, tiles, i, j, non_unique_tiles, x, y] holds the canvas, the
\* table and the loops' variables.
RgbStep(st, original) ==
    LET c == st.y * Columns(original) + st.x + 1
        u == st.tiles[c].unique
        j1 == st.j + 1
        wrap == RowFull(j1, st.canvas.width)
        nu == NonUniqueAfter(st.non_unique_tiles, u)
    IN  [canvas |-> IF u THEN paste(st.canvas, original, st.x, st.y, st.j, st.i)
                    ELSE st.canvas,
         tiles |-> [st.tiles EXCEPT ![c].non_unique_tile_count = nu],
         i |-> IF u /\ wrap THEN st.i + 1 ELSE st.i,
         j |-> IF u THEN (IF wrap THEN 0 ELSE j1) ELSE st.j,
         non_unique_tiles |-> nu,
         x |-> st.x + 1,
         y |-> st.y]

\* for x in range(tilemap.columns): ...
RECURSIVE RgbRow(_, _)
RgbRow(st, original) ==
    IF st.x >= Columns(original) THEN st
    ELSE RgbRow(RgbStep(st, original), original)

\* for y in range(tilemap.rows): ...
RECURSIVE RgbLoop(_, _)
RgbLoop(st, original) ==
    IF st.y >= Rows(original) THEN st
    ELSE RgbLoop([RgbRow([st EXCEPT !.x = 0], original) EXCEPT !.y = @ + 1],
                 original)

create_rgb_tilemap_image(original, size, tt) ==
    RgbLoop([canvas |-> NewImage(size[1], size[2], getpixel(original, 0, 0)),
             tiles |-> tt, i |-> 0, j |-> 0, non_unique_tiles |-> 0,
             x |-> 0, y |-> 0],
            original)

(***************************************************************************)
(* SpecDedup: an atlas is read, deduplicated and compacted.                *)
(***************************************************************************)
Shapes == { s \in (1..MaxCells) \X (1..MaxCells) : s[1] * s[2] <= MaxCells }

\* The atlas of shape s (columns, rows) whose cells are c.
Atlas(s, c) == [width |-> s[1] * TileSize, height |-> s[2] * TileSize, cells |-> c]

NoImage == [width |-> 0, height |-> 0, cells |-> <<>>]

SizeIdle == colour_count = 0 /\ written = {} /\ printed = <<>>
BuildIdle ==
    /\ config = None /\ map_data = None
    /\ combined_tilemap = <<>> /\ returned = None
    /\ compiled_from = <<>> /\ pending = None
RemapIdle ==
    /\ Map = None /\ i = 0 /\ k = 0 /\ screenblock_2nd_half = FALSE
    /\ emitted = 0 /\ last = None /\ visited = {}
PalIdle ==
    /\ image = NoImage /\ palette_list = <<>> /\ variant = None
    /\ bpp_mode = {}
CacheIdle == clock = 0 /\ sources = <<>> /\ artifacts = <<>>
MiscIdle == length = 0 /\ map_size = 0 /\ tilemap_min_p = <<>> /\ tilelist = <<>>
DedupIdle ==
    /\ tilemap_src = NoImage /\ tilemap_tiles = <<>> /\ unique_tile_count = 0
    /\ min_size = None /\ min_rgb = NoImage /\ candidate = 0

DedupInit ==
    /\ pc = "start"
    /\ \E s \in Shapes : \E c \in [1 .. (s[1] * s[2]) -> TileFamily] :
          tilemap_src = Atlas(s, c)
    /\ tilemap_tiles = <<>> /\ unique_tile_count = 0
    /\ min_size = None /\ min_rgb = NoImage /\ candidate = 0
    /\ SizeIdle /\ BuildIdle /\ RemapIdle /\ PalIdle /\ CacheIdle /\ MiscIdle

\* tilemap_tiles,unique_tile_count = compare_tiles(tilemap_src)
CompareTiles ==
    /\ pc = "start"
    /\ LET r == compare_tiles(tilemap_src)
       IN  /\ tilemap_tiles' = r.tiles
           /\ unique_tile_count' = r.count
    /\ pc' = "compared"
    /\ UNCHANGED <<tilemap_src, candidate, min_size, min_rgb,
                   sizeVars, buildVars, remapVars, palVars, cacheVars, miscVars>>

\* The capacity check passes; get_tilemap_size, then create_rgb_tilemap_image.
CreateRgbTilemapImage ==
    /\ pc = "compared"
    /\ unique_tile_count <= TileCapacity
    /\ LET size == get_tilemap_size(unique_tile_count)
           st == create_rgb_tilemap_image(tilemap_src, size, tilemap_tiles)
       IN  /\ min_size' = size
           /\ min_rgb' = st.canvas
           /\ tilemap_tiles' = st.tiles
    /\ pc' = "compacted"
    /\ UNCHANGED <<tilemap_src, candidate, unique_tile_count,
                   sizeVars, buildVars, remapVars, palVars, cacheVars, miscVars>>

DedupNext == CompareTiles \/ CreateRgbTilemapImage

SpecDedup == DedupInit /\ [][DedupNext]_vars

(***************************************************************************)
(* Properties of SpecDedup.                                                *)
(***************************************************************************)
Cells == 1 .. Len(tilemap_tiles)
Raster(rel) == rel[2] * Columns(tilemap_src) + rel[1]     \* row*columns+col

\* C1: after compare_tiles every record with unique = False has a 'relative'
\* <<col, row>> inside the atlas that refers to a record with unique = True
\* whose raster position row*columns+col is strictly less than its own.
C1_RelativeIsEarlierUnique ==
    pc \in {"compared", "compacted"} =>
        \A c \in Cells :
            ~ tilemap_tiles[c].unique =>
                LET rel == tilemap_tiles[c].relative
                IN  /\ rel[1] \in 0 .. (Columns(tilemap_src) - 1)
                    /\ rel[2] \in 0 .. (Rows(tilemap_src) - 1)
                    /\ Raster(rel) < c - 1
                    /\ tilemap_tiles[Raster(rel) + 1].unique

\* A duplicate in the second row whose canonical cell is in the second column.
C1_Witness ==
    /\ pc = "compared"
    /\ \E c \in Cells :
          /\ ~ tilemap_tiles[c].unique
          /\ tilemap_tiles[c].relative = <<1, 0>>
          /\ c - 1 >= Columns(tilemap_src)

\* Pixel equality of two tiles under one of the four transforms, stated on
\* the pixels and with the left-right mirror itself.
Equivalent(s, t) ==
    \/ tile_compare(s, t)
    \/ tile_compare(s, flip(t))
    \/ tile_compare(s, rotate180(t))
    \/ tile_compare(s, mirror(t))

EquivalentTable ==
    [a \in KnownTiles, b \in KnownTiles |-> Equivalent(TilePixels[a], TilePixels[b])]

SameClass(c, d) == EquivalentTable[tilemap_src.cells[c], tilemap_src.cells[d]]

\* C2: after compare_tiles no two cells marked unique are pixel-equal under
\* any of the four transforms, unique_tile_count is the number of classes of
\* cells under those transforms, and an atlas without duplicate tiles has
\* every cell unique and unique_tile_count equal to the tile count.
C2_UniqueCellsAreInequivalent ==
    pc \in {"compared", "compacted"} =>
        /\ \A c, d \in Cells :
              (c # d /\ tilemap_tiles[c].unique /\ tilemap_tiles[d].unique)
                  => ~ SameClass(c, d)
        /\ unique_tile_count =
              Cardinality({ { d \in Cells : SameClass(c, d) } : c \in Cells })
        /\ (\A c, d \in Cells : c # d => ~ SameClass(c, d))
              => /\ \A c \in Cells : tilemap_tiles[c].unique
                 /\ unique_tile_count = Len(tilemap_tiles)

\* Three classes, one of them holding a cell and its left-right mirror.
C2_Witness ==
    /\ pc = "compared"
    /\ Len(tilemap_tiles) = 4
    /\ unique_tile_count = 3
    /\ \E c \in Cells : tilemap_tiles[c].h_flipped /\ ~ tilemap_tiles[c].v_flipped

\* The slot of the compacted atlas that holds cell c's canonical tile.
CanonicalOf(c) ==
    IF tilemap_tiles[c].unique THEN c ELSE Raster(tilemap_tiles[c].relative) + 1
CompactedIndex(c) ==
    (CanonicalOf(c) - 1) - tilemap_tiles[CanonicalOf(c)].non_unique_tile_count

\* What the hardware shows for a stored tile and the two flip bits, against
\* the pixels of a cell; tabulated per pair of tile contents.
Restores(stored, h_flipped, v_flipped, original) ==
    LET h == IF h_flipped THEN mirror(stored) ELSE stored
        v == IF v_flipped THEN flip(h) ELSE h
    IN  tile_compare(v, original)

RestoresTable ==
    [a \in KnownTiles, h \in BOOLEAN, v \in BOOLEAN, b \in KnownTiles |->
        Restores(TilePixels[a], h, v, TilePixels[b])]

SlotCount(img) == Columns(img) * Rows(img)

\* C3: round trip: for every cell c the tile in the compacted atlas at slot
\* (raster index of c's canonical cell minus that cell's
\* non_unique_tile_count), mirrored horizontally if c.h_flipped and
\* vertically if c.v_flipped, has exactly the 64 pixels of c in the atlas.
C3_RoundTrip ==
    pc = "compacted" =>
        \A c \in Cells :
            /\ CompactedIndex(c) \in 0 .. (SlotCount(min_rgb) - 1)
            /\ RestoresTable[CellAt(min_rgb, CompactedIndex(c) + 1),
                             tilemap_tiles[c].h_flipped, tilemap_tiles[c].v_flipped,
                             CellAt(tilemap_src, c)]

\* A horizontally mirrored duplicate whose canonical cell has been moved
\* down by an earlier duplicate.
C3_Witness ==
    /\ pc = "compacted"
    /\ \E c \in Cells :
          /\ ~ tilemap_tiles[c].unique
          /\ tilemap_tiles[c].h_flipped
          /\ tilemap_tiles[CanonicalOf(c)].non_unique_tile_count > 0
          /\ CellAt(min_rgb, CompactedIndex(c) + 1) # Uniform(Black)

\* C14: after create_rgb_tilemap_image the non_unique_tile_count of every
\* cell is the number of cells at or before it, in raster order, that are
\* marked non-unique; the counts never decrease along the raster order, and
\* unique_tile_count is at most the number of cells.
C14_CountsNonUniqueAtOrBefore ==
    /\ pc = "compacted" =>
          /\ \A c \in Cells :
                tilemap_tiles[c].non_unique_tile_count =
                    Cardinality({ d \in 1 .. c : ~ tilemap_tiles[d].unique })
          /\ \A c \in Cells \ {1} :
                tilemap_tiles[c - 1].non_unique_tile_count
                    <= tilemap_tiles[c].non_unique_tile_count
    /\ pc \in {"compared", "compacted"} =>
          /\ unique_tile_count <= Len(tilemap_tiles)
          /\ Len(tilemap_tiles) = Columns(tilemap_src) * Rows(tilemap_src)

\* Four cells, the second and the fourth non-unique: the counts 0, 1, 1, 2.
C14_Witness ==
    /\ pc = "compacted"
    /\ Len(tilemap_tiles) = 4
    /\ [c \in 1 .. 4 |-> tilemap_tiles[c].non_unique_tile_count] = <<0, 1, 1, 2>>
    /\ unique_tile_count = 2

\* How the pixels of two cells of the atlas relate, tabulated per pair of
\* tile contents: different pixels, b the top-bottom mirror of a, b the
\* half-turn of a.
RelationTable ==
    [a \in KnownTiles, b \in KnownTiles |->
        [differ |-> ~ tile_compare(TilePixels[a], TilePixels[b]),
         mirrored |-> tile_compare(TilePixels[b], flip(TilePixels[a])),
         rotated |-> tile_compare(TilePixels[b], rotate180(TilePixels[a]))]]
Relation(a, b) == RelationTable[tilemap_src.cells[a], tilemap_src.cells[b]]

LowestOfClass(a) == \A d \in 1 .. (a - 1) : ~ SameClass(d, a)

\* C15 as claimed: for pixel-different tiles A and B, A the lowest cell of
\* its class and B later: if B is the vertical mirror of A, B is non-unique
\* with v_flipped and without h_flipped; if B is A rotated by 180 degrees,
\* B is non-unique with both h_flipped and v_flipped.
C15_MirrorAndRotationFlags ==
    pc = "compared" =>
        \A a, b \in Cells :
            (a < b /\ LowestOfClass(a) /\ Relation(a, b).differ) =>
                /\ Relation(a, b).mirrored =>
                      /\ ~ tilemap_tiles[b].unique
                      /\ tilemap_tiles[b].v_flipped /\ ~ tilemap_tiles[b].h_flipped
                /\ Relation(a, b).rotated =>
                      /\ ~ tilemap_tiles[b].unique
                      /\ tilemap_tiles[b].h_flipped /\ tilemap_tiles[b].v_flipped

\* C15, amended: as claimed for the vertical mirror; a B that is A rotated
\* by 180 degrees has both flags when it is not the vertical mirror of A as
\* well, and otherwise has v_flipped alone.
C15_RotationFlagsUnlessMirror ==
    pc = "compared" =>
        \A a, b \in Cells :
            (a < b /\ LowestOfClass(a) /\ Relation(a, b).differ) =>
                /\ Relation(a, b).mirrored =>
                      /\ ~ tilemap_tiles[b].unique
                      /\ tilemap_tiles[b].relative = <<(a - 1) % Columns(tilemap_src),
                                                       (a - 1) \div Columns(tilemap_src)>>
                      /\ tilemap_tiles[b].v_flipped /\ ~ tilemap_tiles[b].h_flipped
                /\ (Relation(a, b).rotated /\ ~ Relation(a, b).mirrored) =>
                      /\ ~ tilemap_tiles[b].unique
                      /\ tilemap_tiles[b].relative = <<(a - 1) % Columns(tilemap_src),
                                                       (a - 1) \div Columns(tilemap_src)>>
                      /\ tilemap_tiles[b].h_flipped /\ tilemap_tiles[b].v_flipped

\* An atlas that holds a tile and its half-turn, which is not its vertical
\* mirror, and a tile whose half-turn is its vertical mirror.
C15_Witness ==
    /\ pc = "compared"
    /\ \E a, c \in Cells :
          /\ a < c /\ LowestOfClass(a)
          /\ Relation(a, c).differ
          /\ Relation(a, c).rotated /\ ~ Relation(a, c).mirrored
          /\ tilemap_tiles[c].v_flipped /\ tilemap_tiles[c].h_flipped
    /\ \E a, b \in Cells :
          /\ a < b /\ LowestOfClass(a) /\ Relation(a, b).differ
          /\ Relation(a, b).rotated /\ Relation(a, b).mirrored
          /\ tilemap_tiles[b].v_flipped /\ ~ tilemap_tiles[b].h_flipped

\* The flags <<h_flipped, v_flipped>> of the first transform, in the order
\* identity, vertical mirror, half-turn, horizontal mirror, under which the
\* canonical tile equals the transformed cell; <<>> if there is none.
FirstTransformFlags(canonical, cell) ==
    IF tile_compare(canonical, cell) THEN <<FALSE, FALSE>>
    ELSE IF tile_compare(canonical, flip(cell)) THEN <<FALSE, TRUE>>
    ELSE IF tile_compare(canonical, rotate180(cell)) THEN <<TRUE, TRUE>>
    ELSE IF tile_compare(canonical, mirror(cell)) THEN <<TRUE, FALSE>>
    ELSE <<>>

FirstTransformTable ==
    [a \in KnownTiles, b \in KnownTiles |->
        FirstTransformFlags(TilePixels[a], TilePixels[b])]

\* C16: for each non-unique cell the recorded flags are those of the first
\* transform, in the fixed order identity, vertical mirror, 180-degree
\* rotation, horizontal mirror, under which the canonical tile equals the
\* transformed cell: (h_flipped, v_flipped) is (False, False), (False, True),
\* (True, True), (True, False) respectively, and never those of a later
\* transform when an earlier one matches as well.
C16_FlagsOfFirstTransform ==
    pc \in {"compared", "compacted"} =>
        \A c \in Cells :
            ~ tilemap_tiles[c].unique =>
                <<tilemap_tiles[c].h_flipped, tilemap_tiles[c].v_flipped>>
                    = FirstTransformTable[tilemap_src.cells[CanonicalOf(c)],
                                          tilemap_src.cells[c]]

\* A cell that is the vertical mirror and the half-turn of its canonical
\* cell is recorded as the vertical mirror; another one is a horizontal
\* mirror, the last transform of the order.
C16_Witness ==
    /\ pc = "compared"
    /\ \E c \in Cells :
          /\ ~ tilemap_tiles[c].unique
          /\ Relation(CanonicalOf(c), c).differ
          /\ Relation(CanonicalOf(c), c).mirrored
          /\ Relation(CanonicalOf(c), c).rotated
          /\ ~ tilemap_tiles[c].h_flipped /\ tilemap_tiles[c].v_flipped
    /\ \E c \in Cells :
          /\ ~ tilemap_tiles[c].unique
          /\ tilemap_tiles[c].h_flipped /\ ~ tilemap_tiles[c].v_flipped

(***************************************************************************)
(* SpecSize: create_compressed_tileset of tilemap_compressor, step by      *)
(* step.  The atlas enters through what compare_tiles counts on it         *)
(* (unique_tile_count) and through the number of distinct colours of the   *)
(* canvas built from it (colour_count); an atlas of u unique tiles has at  *)
(* most 64*u colours.                                                      *)
(***************************************************************************)
ColourCases == {1, Bpp4Colours, Bpp4Colours + 1, PaletteCapacity, PaletteCapacity + 1}

SizeInit ==
    /\ pc = "compared"
    /\ unique_tile_count \in 1 .. (TileCapacity + Over)
    /\ colour_count \in { n \in ColourCases :
                            n <= TileSize * TileSize * unique_tile_count }
    /\ written = {} /\ printed = <<>>
    /\ tilemap_src = NoImage /\ tilemap_tiles = <<>>
    /\ min_size = None /\ min_rgb = NoImage /\ candidate = 0
    /\ BuildIdle /\ RemapIdle /\ PalIdle /\ CacheIdle /\ MiscIdle

\* WithinCapacity with the comparison off by one.
WithinCapacityStrict(count) == count < TileCapacity

\* if unique_tile_count <= 960
WithinCapacity(count) == count <= TileCapacity

\* else: raise OverflowError
RaiseOverflow ==
    /\ pc = "compared"
    /\ ~ WithinCapacity(unique_tile_count)
    /\ pc' = "overflow"
    /\ UNCHANGED <<dedupVars, sizeVars, buildVars, remapVars, palVars, cacheVars, miscVars>>

\* get_tilemap_size, the TilemapImageObject and create_rgb_tilemap_image
\* (the canvas lives in memory: nothing is written).
SizeCanvas ==
    /\ pc = "compared"
    /\ WithinCapacity(unique_tile_count)
    /\ min_size' = get_tilemap_size(unique_tile_count)
    /\ printed' = printed \o << <<"Found unique tiles", unique_tile_count>>,
                                <<"Minimized tilemap created">> >>
    /\ pc' = "compacted"
    /\ UNCHANGED <<tilemap_src, tilemap_tiles, candidate, unique_tile_count, min_rgb,
                   colour_count, written, buildVars, remapVars, palVars, cacheVars, miscVars>>

\* TooManyColours with the bound off by one.
TooManyColoursLoose(n) == n > PaletteCapacity + 1

\* The else branch of the chain "if len(palette_list) <= 64 ... <= 256".
TooManyColours(n) == n > PaletteCapacity

\* create_tilemap_palette: too many colours are reported and end the
\* program (sys.exit).
PaletteExit ==
    /\ pc = "compacted"
    /\ TooManyColours(colour_count)
    /\ printed' = Append(printed, <<"Too many unique colors", colour_count>>)
    /\ pc' = "exit"
    /\ UNCHANGED <<dedupVars, colour_count, written, buildVars, remapVars, palVars, cacheVars, miscVars>>

\* create_tilemap_palette: the palette bitmap and its JSON file are written.
PaletteWritten ==
    /\ pc = "compacted"
    /\ ~ TooManyColours(colour_count)
    /\ written' = written \cup {"palette.bmp", "palette.json"}
    /\ pc' = "palette"
    /\ UNCHANGED <<dedupVars, colour_count, printed, buildVars, remapVars, palVars, cacheVars, miscVars>>

\* create_paletted_tilemap_image and create_butano_json_import_file.
TilesetWritten ==
    /\ pc = "palette"
    /\ printed' = Append(printed, <<"Palette extracted">>)
    /\ written' = written \cup {"tileset.bmp", "tileset.json"}
    /\ pc' = "tileset"
    /\ UNCHANGED <<dedupVars, colour_count, buildVars, remapVars, palVars, cacheVars, miscVars>>

\* The sidecar metadata is dumped and the function returns.
SidecarWritten ==
    /\ pc = "tileset"
    /\ printed' = printed \o << <<"Palette applied">>, <<"Tileset created">> >>
    /\ written' = written \cup {"sidecar.json"}
    /\ pc' = "created"
    /\ UNCHANGED <<dedupVars, colour_count, buildVars, remapVars, palVars, cacheVars, miscVars>>

SizeNext ==
    \/ RaiseOverflow \/ SizeCanvas \/ PaletteExit
    \/ PaletteWritten \/ TilesetWritten \/ SidecarWritten

SpecSize == SizeInit /\ [][SizeNext]_vars

(***************************************************************************)
(* Properties of SpecSize.                                                 *)
(***************************************************************************)
CeilDiv(a, b) == (a + b - 1) \div b

ClaimedSize(u) ==
    IF u <= Tier1Tiles THEN <<BasePixels, BasePixels>>
    ELSE IF u <= Tier2Tiles
        THEN <<BasePixels + CeilDiv(u - Tier1Tiles, Tier2Step) * TileSize, BasePixels>>
    ELSE <<WidePixels, BasePixels + CeilDiv(u - Tier2Tiles, Tier3Step) * TileSize>>

\* C4: for every unique tile count U in 1..960 the canvas is 128 x 128 when
\* U <= 256, (128 + ceil((U-256)/16)*8) x 128 when 256 < U <= 512 and
\* 256 x (128 + ceil((U-512)/32)*8) when 512 < U <= 960; U = 960 gives
\* 256 x 240.
C4_CanvasSizeAsClaimed ==
    (min_size # None /\ unique_tile_count \in 1 .. TileCapacity)
        => min_size = ClaimedSize(unique_tile_count)

SizeEnded == pc \in {"overflow", "exit", "created"}

C12_PaletteOverflowWritesNothing ==
    /\ (unique_tile_count <= TileCapacity /\ colour_count > PaletteCapacity) =>
          /\ written = {}
          /\ pc \in {"compared", "compacted", "exit"}
          /\ pc = "exit" =>
                printed[Len(printed)] = <<"Too many unique colors", colour_count>>
    /\ pc = "exit" => colour_count > PaletteCapacity
    /\ (pc = "palette" /\ colour_count <= PaletteCapacity) =>
          written = {"palette.bmp", "palette.json"}

\* 257 colours: the program has ended on the report and nothing is written.
C12_Witness ==
    /\ pc = "exit"
    /\ colour_count = PaletteCapacity + 1
    /\ written = {}
    /\ printed[Len(printed)] = <<"Too many unique colors", PaletteCapacity + 1>>

(***************************************************************************)
(* SpecBuild: the main program of instantiation_generator: every           *)
(* consolidated atlas is compiled first, then every map is initialised.    *)
(* An atlas is named by the set of maps that use it: {m} is map m's own    *)
(* atlas, a set of two maps or more a consolidated atlas, {} no atlas.     *)
(***************************************************************************)
Maps == 1 .. MaxMaps

\* What get_map_data hands to the program: the consolidated atlases, each
\* shared by two maps or more, no map in two of them; every map starts with
\* an empty "combined_tilemap".
MapDataSet ==
    { [combined_maps |-> g] :
        g \in { g \in SUBSET { m \in SUBSET Maps : Cardinality(m) >= 2 } :
                  \A a, b \in g : a # b => a \cap b = {} } }

ConfigSet == [PREVENT_MAP_CONSOLIDATION : BOOLEAN]

\* What compare_tiles counts on an atlas and how many colours its canvas has.
CountCases == {1, TileCapacity, TileCapacity + 1}

\* create_compressed_tileset as a whole, on the counts of the atlas.
create_compressed_tileset(count, colours) ==
    IF ~ WithinCapacity(count) THEN "OverflowError"
    ELSE IF TooManyColours(colours) THEN "exit"
    ELSE "created"

\* create_tilemap whose except branch reports success for a consolidated atlas.
create_tilemap_swallow(cached, combined_map, count, colours) ==
    IF cached THEN [outcome |-> "returned", success |-> TRUE, tiles |-> "cached",
                    count |-> 0]
    ELSE LET r == create_compressed_tileset(count, colours)
         IN  IF r = "created"
                 THEN [outcome |-> "returned", success |-> TRUE,
                       tiles |-> "generated", count |-> count]
             ELSE IF r = "exit"
                 THEN [outcome |-> "exit", success |-> FALSE, tiles |-> None,
                       count |-> count]
             ELSE IF ~ combined_map
                 THEN [outcome |-> "raised", success |-> FALSE, tiles |-> None,
                       count |-> count]
             ELSE [outcome |-> "returned", success |-> TRUE, tiles |-> None,
                   count |-> count]

\* create_tilemap(mapdict, combined_map).  cached: image generation is not
\* forced, the sidecar exists, the bitmap is as new as the source images and
\* get_tiles finds the recorded flag consistent (generate_image is False).
create_tilemap(cached, combined_map, count, colours) ==
    IF cached THEN [outcome |-> "returned", success |-> TRUE, tiles |-> "cached",
                    count |-> 0]
    ELSE LET r == create_compressed_tileset(count, colours)
         IN  IF r = "created"
                 THEN [outcome |-> "returned", success |-> TRUE,
                       tiles |-> "generated", count |-> count]
             ELSE IF r = "exit"
                 THEN [outcome |-> "exit", success |-> FALSE, tiles |-> None,
                       count |-> count]
             ELSE IF ~ combined_map
                 THEN [outcome |-> "raised", success |-> FALSE, tiles |-> None,
                       count |-> count]
             ELSE [outcome |-> "returned", success |-> FALSE, tiles |-> None,
                   count |-> count]

\* count is 0 where compare_tiles has not run.
NotCalled == [outcome |-> "not called", success |-> FALSE, tiles |-> None, count |-> 0]

BuildInit ==
    /\ pc = "combined_maps"
    /\ config \in ConfigSet
    /\ map_data \in MapDataSet
    /\ combined_tilemap = [m \in Maps |-> {}]
    /\ returned = [combined_maps |-> [g \in map_data.combined_maps |-> NotCalled],
                   maps |-> [m \in Maps |-> NotCalled]]
    /\ compiled_from = [m \in Maps |-> {}]
    /\ pending = [combined_maps |-> map_data.combined_maps, maps |-> Maps]
    /\ DedupIdle /\ SizeIdle /\ RemapIdle /\ PalIdle /\ CacheIdle /\ MiscIdle

\* One iteration of "for map_name in map_data['combined_maps']".
CompileCombined ==
    /\ pc = "combined_maps"
    /\ ~ config.PREVENT_MAP_CONSOLIDATION
    /\ \E g \in pending.combined_maps, cached \in BOOLEAN,
          count \in CountCases, colours \in ColourCases :
          LET r == create_tilemap(cached, TRUE, count, colours)
          IN  /\ returned' = [returned EXCEPT !.combined_maps[g] = r]
              /\ IF r.outcome = "exit"
                     THEN /\ pc' = "exit"
                          /\ UNCHANGED combined_tilemap
                     ELSE /\ pc' = pc
                          /\ combined_tilemap' =
                                IF r.success
                                    THEN [m \in Maps |->
                                            IF m \in g THEN g ELSE combined_tilemap[m]]
                                    ELSE combined_tilemap
              /\ pending' = [pending EXCEPT !.combined_maps = @ \ {g}]
    /\ UNCHANGED <<config, map_data, compiled_from,
                   dedupVars, sizeVars, remapVars, palVars, cacheVars, miscVars>>

\* The first loop is over, or consolidation is prevented.
StartMaps ==
    /\ pc = "combined_maps"
    /\ config.PREVENT_MAP_CONSOLIDATION \/ pending.combined_maps = {}
    /\ pc' = "maps"
    /\ UNCHANGED <<dedupVars, sizeVars, buildVars, remapVars, palVars, cacheVars, miscVars>>

\* MapObject.init for a map that compiles its own atlas.
InitMapOwnAtlas ==
    /\ pc = "maps"
    /\ \E m \in pending.maps, cached \in BOOLEAN,
          count \in CountCases, colours \in ColourCases :
          /\ config.PREVENT_MAP_CONSOLIDATION \/ combined_tilemap[m] = {}
          /\ LET r == create_tilemap(cached, FALSE, count, colours)
             IN  /\ returned' = [returned EXCEPT !.maps[m] = r]
                 /\ IF r.outcome = "returned"
                        THEN /\ compiled_from' = [compiled_from EXCEPT ![m] = {m}]
                             /\ pc' = pc
                        ELSE /\ UNCHANGED compiled_from
                             /\ pc' = IF r.outcome = "raised" THEN "OverflowError"
                                      ELSE "exit"
          /\ pending' = [pending EXCEPT !.maps = @ \ {m}]
    /\ UNCHANGED <<config, map_data, combined_tilemap,
                   dedupVars, sizeVars, remapVars, palVars, cacheVars, miscVars>>

\* MapObject.init for a map that takes the consolidated atlas.
InitMapCombinedAtlas ==
    /\ pc = "maps"
    /\ \E m \in pending.maps :
          /\ ~ (config.PREVENT_MAP_CONSOLIDATION \/ combined_tilemap[m] = {})
          /\ compiled_from' = [compiled_from EXCEPT ![m] = combined_tilemap[m]]
          /\ pending' = [pending EXCEPT !.maps = @ \ {m}]
    /\ UNCHANGED <<pc, config, map_data, combined_tilemap, returned,
                   dedupVars, sizeVars, remapVars, palVars, cacheVars, miscVars>>

\* The second loop is over.
BuildFinished ==
    /\ pc = "maps"
    /\ pending.maps = {}
    /\ pc' = "finished"
    /\ UNCHANGED <<dedupVars, sizeVars, buildVars, remapVars, palVars, cacheVars, miscVars>>

BuildNext ==
    \/ CompileCombined \/ StartMaps \/ InitMapOwnAtlas
    \/ InitMapCombinedAtlas \/ BuildFinished

SpecBuild == BuildInit /\ [][BuildNext]_vars

(***************************************************************************)
(* Properties of SpecBuild.                                                *)
(***************************************************************************)
Overflowed(r) == r.count > TileCapacity

\* C6: create_tilemap for a consolidated atlas whose unique tile count
\* exceeds 960 returns the failure signal instead of raising, no member map
\* receives a combined_tilemap entry and every member map is afterwards
\* compiled from its own atlas; for a single map the overflow reaches the
\* caller as an error.
C6_ConsolidationFallsBack ==
    /\ \A g \in map_data.combined_maps :
          Overflowed(returned.combined_maps[g]) =>
              /\ returned.combined_maps[g].outcome = "returned"
              /\ returned.combined_maps[g].success = FALSE
              /\ returned.combined_maps[g].tiles = None
              /\ pc = "OverflowError" => \E m \in Maps : Overflowed(returned.maps[m])
              /\ \A m \in g :
                    /\ combined_tilemap[m] = {}
                    /\ compiled_from[m] \in {{}, {m}}
                    /\ compiled_from[m] = {m} =>
                          returned.maps[m].outcome = "returned"
                    /\ pc = "finished" => compiled_from[m] = {m}
    /\ \A m \in Maps :
          Overflowed(returned.maps[m]) =>
              /\ returned.maps[m].outcome = "raised"
              /\ pc = "OverflowError"
              /\ compiled_from[m] = {}

\* A consolidated atlas overflowed and the build finished with each of its
\* members compiled from its own atlas.
C6_Witness ==
    /\ pc = "finished"
    /\ \E g \in map_data.combined_maps :
          /\ Overflowed(returned.combined_maps[g])
          /\ \A m \in g : compiled_from[m] = {m}

\* A single map overflowed and the error reached the caller.
C6_WitnessSingle ==
    /\ pc = "OverflowError"
    /\ \E m \in Maps : Overflowed(returned.maps[m])

(***************************************************************************)
(* SpecRemap: MapObject.init, then the remapping loop of                   *)
(* MapObject.calculate_tilemap_data over one layer, one iteration a step.  *)
(***************************************************************************)
ScreenblockWidth == 64   \* the width that engages the screenblock traversal
HalfRows == 32           \* rows of one screenblock
FullRows == 64           \* rows of two screenblocks

MaxTileId == 3           \* the atlas of a map holds the tiles 0 .. MaxTileId
Factors == {1, 2}        \* tile-size factors: 8 and 16 pixel tiles

\* A tile of factor F is a block of F x F cells.  The tiles the maps of the
\* model draw are symmetric: the cell at offset <<xo, yo>> of the block is
\* the tile's first cell, mirrored when xo is odd and flipped when yo is odd.
BlockCell(q, xo, yo) ==
    LET h == IF xo % 2 = 1 THEN QuadMirror(q) ELSE q
    IN  IF yo % 2 = 1 THEN QuadFlip(h) ELSE h

RemapFamily ==
    { Uniform(Black), <<Red, Black, Black, Black>>, <<Black, Red, Black, Black>> }

\* The atlas of a map: tile 0 is the transparent tile, every other tile is
\* drawn from RemapFamily; bw tiles of factor F per row.
RemapContents == { c \in [0 .. MaxTileId -> RemapFamily] : c[0] = Uniform(Black) }
RemapWidths == { b \in 2 .. (MaxTileId + 1) : (MaxTileId + 1) % b = 0 }

RemapAtlas(F, bw, content) ==
    LET columns == bw * F
        rows == ((MaxTileId + 1) \div bw) * F
    IN  [width |-> columns * TileSize, height |-> rows * TileSize,
         cells |-> [p \in 1 .. (columns * rows) |->
                      LET cx == (p - 1) % columns
                          cy == (p - 1) \div columns
                      IN  BlockCell(content[(cy \div F) * bw + (cx \div F)],
                                    cx % F, cy % F)]]

\* What create_compressed_tileset returns for an atlas: the dedup table
\* after create_rgb_tilemap_image, and the atlas' columns.
compressed_tileset(atlas) ==
    LET r == compare_tiles(atlas)
        st == create_rgb_tilemap_image(atlas, get_tilemap_size(r.count), r.tiles)
    IN  [tiles |-> st.tiles, columns |-> Columns(atlas)]

\* MapObject.init.  mapdict carries map_width, map_height (in tiles of the
\* map), map_tilesize (pixels), the tilesets ("images") and the layer.
MapObject_init(mapdict, bitmap, tilemap_width) ==
    [width |-> (mapdict.map_width * mapdict.map_tilesize) \div TileSize,
     height |-> (mapdict.map_height * mapdict.map_tilesize) \div TileSize,
     bitmap |-> bitmap,
     columns |-> tilemap_width,
     tiles |-> mapdict.images,
     bitmap_width |-> (tilemap_width * TileSize) \div mapdict.map_tilesize,
     tilesize_factor |-> mapdict.map_tilesize \div TileSize,
     tilemap |-> mapdict.layer]

\* base_id that takes a row of cells for a row of tiles.
base_id_by_cell_row(M, c) ==
    ((c - (c \div M.width) * M.width) \div M.tilesize_factor)
        + (c \div M.width) * (M.width \div M.tilesize_factor)

\* real_id that steps one row of cells for a row of tiles.
real_id_single_row(M, tile_id, xo, yo) ==
    (tile_id % M.bitmap_width) * M.tilesize_factor
        + (tile_id \div M.bitmap_width) * M.bitmap_width * M.tilesize_factor
        + yo * M.bitmap_width * M.tilesize_factor + xo

\* screenblock_flip that does not look at the height.
screenblock_flip_any_height(M) == M.width = ScreenblockWidth

screenblock_flip(M) ==
    M.width = ScreenblockWidth /\ M.height \in {HalfRows, FullRows}

base_id(M, c) ==
    ((c - (c \div M.width) * M.width) \div M.tilesize_factor)
        + (c \div (M.width * M.tilesize_factor)) * (M.width \div M.tilesize_factor)

x_offset(M, c) == c % M.tilesize_factor
y_offset(M, c) == (c \div M.width) % M.tilesize_factor

\* tilemap[base_id].  A layer of the model repeats its first entries: the
\* list is held by one period of it.
LayerAt(M, b) == M.tilemap[(b % Len(M.tilemap)) + 1]

\* list.index: the first position of v, counted from 0.
IndexOf(seq, v) ==
    (CHOOSE n \in 1 .. Len(seq) :
        seq[n] = v /\ \A m \in 1 .. (n - 1) : seq[m] # v) - 1

\* "for tile in self.tiles": the tilesets in the order of the dict, each of
\* them testing the tile_id the ones before it left.
RECURSIVE TranslateLoop(_, _, _)
TranslateLoop(tiles, tile_id, n) ==
    IF n > Len(tiles) THEN tile_id
    ELSE IF tiles[n].first_gid <= tile_id /\ tile_id < tiles[n].last_gid
        THEN TranslateLoop(tiles,
                 IndexOf(tiles[n].used_tiles, tile_id - tiles[n].first_gid)
                     + tiles[n].start_tile,
                 n + 1)
    ELSE TranslateLoop(tiles, tile_id, n + 1)

\* TileId that offsets the empty cell's id as well.
TileIdAlwaysOffset(M, prevent_minimization, raw) ==
    (IF ~ prevent_minimization THEN TranslateLoop(M.tiles, raw, 1)
     ELSE IF raw # 0 THEN raw - 1 ELSE 0) + 1

\* The tile_id of a raw id, offset for the transparent tile included.
TileId(M, prevent_minimization, raw) ==
    LET t == IF ~ prevent_minimization THEN TranslateLoop(M.tiles, raw, 1)
             ELSE IF raw # 0 THEN raw - 1 ELSE 0
    IN  IF t # 0 THEN t + 1 ELSE t

real_id(M, tile_id, xo, yo) ==
    (tile_id % M.bitmap_width) * M.tilesize_factor
        + (tile_id \div M.bitmap_width) * M.bitmap_width
              * M.tilesize_factor * M.tilesize_factor
        + yo * M.bitmap_width * M.tilesize_factor + xo

flip_offset(rec) ==
    (IF rec.h_flipped THEN H_FLIP ELSE 0) + (IF rec.v_flipped THEN V_FLIP ELSE 0)

\* HardwareCode that leaves the canonical cell's raster index uncompacted.
HardwareCodeUncompacted(M, rid) ==
    LET rec == M.bitmap[rid + 1]
        canon == IF ~ rec.unique
                     THEN rec.relative[2] * M.bitmap_width * M.tilesize_factor
                              + rec.relative[1]
                 ELSE rid
    IN  canon + flip_offset(rec)

\* The flip offset, the canonical cell, the compaction, the sum.
HardwareCode(M, rid) ==
    LET rec == M.bitmap[rid + 1]
        canon == IF ~ rec.unique
                     THEN rec.relative[2] * M.bitmap_width * M.tilesize_factor
                              + rec.relative[1]
                 ELSE rid
    IN  canon - M.bitmap[canon + 1].non_unique_tile_count + flip_offset(rec)

\* InLayer that lets the cursor reach the position after the last one.
InLayerInclusive(M, c) == c <= M.width * M.height

\* while i < self.width*self.height
InLayer(M, c) == c < M.width * M.height

\* The four cursor jumps at the end of the loop's body, one after the other;
\* c, run and half are i, k and screenblock_2nd_half.
ScreenblockJump(M, c, run, half) ==
    LET w  == M.width \div M.tilesize_factor
        sf == screenblock_flip(M)
        s0 == [i |-> c, k |-> run, half |-> half]
        s1 == IF sf /\ s0.k = w - 1
                  THEN [s0 EXCEPT !.i = @ + w, !.k = -1] ELSE s0
        s2 == IF sf /\ ~ s1.half /\ s1.i = M.width * HalfRows - 1
                  THEN [s1 EXCEPT !.i = w - 1, !.half = TRUE] ELSE s1
        s3 == IF sf /\ s2.half /\ s2.i = M.width * HalfRows + w - 1
                  THEN [s2 EXCEPT !.i = M.width * HalfRows - 1, !.half = FALSE]
                  ELSE s2
        s4 == IF sf /\ ~ s3.half /\ s3.i = M.width * FullRows - 1
                  THEN [s3 EXCEPT !.i = M.width * HalfRows + w - 1, !.half = TRUE]
                  ELSE s3
    IN  s4

\* The tilesets of a map ("images"), reduced to this map's entries: one
\* tileset holding every tile, or the first tile in a tileset of its own.
TilesDicts ==
    { << [first_gid |-> 1, last_gid |-> MaxTileId + 1,
          used_tiles |-> [n \in 1 .. MaxTileId |-> n - 1], start_tile |-> 0] >>,
      << [first_gid |-> 1, last_gid |-> 2,
          used_tiles |-> <<0>>, start_tile |-> 0],
         [first_gid |-> 2, last_gid |-> MaxTileId + 1,
          used_tiles |-> [n \in 1 .. (MaxTileId - 1) |-> n - 1], start_tile |-> 1] >> }

RawIds == 0 .. MaxTileId
Layers == { <<a, b>> : a \in RawIds, b \in RawIds }

\* A small map, two tiles wide and one tile high, over any atlas and layer.
SmallMapdicts ==
    { [map_width |-> 2, map_height |-> 1, map_tilesize |-> F * TileSize,
       images |-> t, layer |-> l, bw |-> b, content |-> c] :
        F \in {1, 2}, t \in TilesDicts, l \in Layers,
        b \in RemapWidths, c \in RemapContents }

\* A map of 64 hardware tiles by 32 or 64, over one atlas and one layer.
ScreenblockMapdicts ==
    { [map_width |-> ScreenblockWidth \div F, map_height |-> h \div F,
       map_tilesize |-> F * TileSize,
       images |-> t, layer |-> <<2, 3>>, bw |-> MaxTileId + 1,
       content |-> [n \in 0 .. MaxTileId |->
                      IF n < 2 THEN Uniform(Black) ELSE <<Red, Black, Black, Black>>]] :
        F \in Factors, h \in {HalfRows, FullRows}, t \in TilesDicts }

RemapInit ==
    /\ pc = "loop"
    /\ config \in [PREVENT_TILEMAP_MINIMIZATION : BOOLEAN]
    /\ \E mapdict \in SmallMapdicts \cup ScreenblockMapdicts :
          LET r == compressed_tileset(
                       RemapAtlas(mapdict.map_tilesize \div TileSize,
                                  mapdict.bw, mapdict.content))
          IN  Map = MapObject_init(mapdict, r.tiles, r.columns)
    /\ i = 0 /\ k = 0 /\ screenblock_2nd_half = FALSE
    /\ emitted = 0 /\ last = None /\ visited = {}
    /\ map_data = None /\ combined_tilemap = <<>> /\ returned = None
    /\ compiled_from = <<>> /\ pending = None
    /\ DedupIdle /\ SizeIdle /\ PalIdle /\ CacheIdle /\ MiscIdle

\* One iteration of "while i < self.width*self.height".
EmitCode ==
    /\ pc = "loop"
    /\ InLayer(Map, i)
    /\ LET b    == base_id(Map, i)
           tid  == TileId(Map, config.PREVENT_TILEMAP_MINIMIZATION, LayerAt(Map, b))
           rid  == real_id(Map, tid, x_offset(Map, i), y_offset(Map, i))
           jump == ScreenblockJump(Map, i, k, screenblock_2nd_half)
       IN  /\ last' = [i |-> i, base_id |-> b, tile_id |-> tid, real_id |-> rid,
                       code |-> HardwareCode(Map, rid)]
           /\ i' = jump.i + 1
           /\ k' = jump.k + 1
           /\ screenblock_2nd_half' = jump.half
    /\ emitted' = emitted + 1
    /\ UNCHANGED <<pc, Map, visited, dedupVars, sizeVars, buildVars, palVars, cacheVars, miscVars>>

\* The loop's condition fails: the layer is done.
LayerDone ==
    /\ pc = "loop"
    /\ ~ InLayer(Map, i)
    /\ pc' = "done"
    /\ UNCHANGED <<dedupVars, sizeVars, buildVars, remapVars, palVars, cacheVars, miscVars>>

RemapNext == EmitCode \/ LayerDone

SpecRemap == RemapInit /\ [][RemapNext]_vars

(***************************************************************************)
(* Properties of SpecRemap.                                                *)
(***************************************************************************)
\* The position the n-th code (from 0) belongs to when every 32-row band is
\* emitted left half first, then right half.
ClaimedPosition(n) ==
    LET half == ScreenblockWidth \div 2
        band == n \div (ScreenblockWidth * HalfRows)
        m    == n % (ScreenblockWidth * HalfRows)
        side == m \div (half * HalfRows)
        row  == (m % (half * HalfRows)) \div half
        col  == m % half
    IN  (band * HalfRows + row) * ScreenblockWidth + side * half + col

\* C7: for a grid of width 64 and height 32 or 64, and for every tile-size
\* factor, the cursor positions at which codes are emitted are, band by band
\* of 32 rows, the rows of the band in columns 0..31 in raster order and
\* then the rows of the band in columns 32..63 in raster order.
C7_CursorOrderAsClaimed ==
    (pc = "loop" /\ screenblock_flip(Map) /\ i < Map.width * Map.height)
        => i = ClaimedPosition(emitted)

\* The cell of the atlas the last iteration addressed, and what the claim
\* says of it; raster indices are taken on the atlas' own columns.
AddressedRecord == Map.bitmap[last.real_id + 1]
AddressedCanonical ==
    IF AddressedRecord.unique THEN last.real_id
    ELSE AddressedRecord.relative[2] * Map.columns + AddressedRecord.relative[1]
AddressedCompactedIndex ==
    AddressedCanonical - Map.bitmap[AddressedCanonical + 1].non_unique_tile_count
UniqueBefore(c) ==
    Cardinality({ d \in 1 .. c : Map.bitmap[d].unique })

\* C8: every emitted code equals the compacted index of the addressed cell's
\* canonical tile, plus 1024 if the addressed cell is h_flipped, plus 2048 if
\* it is v_flipped; the compacted index is the canonical cell's raster index
\* minus its non_unique_tile_count, it lies in 0..959 (it counts the unique
\* cells before the canonical one), so the flip bits lie above it and the
\* code is below 4096.
C8_CodeIsIndexPlusFlips ==
    emitted > 0 =>
        /\ last.code = AddressedCompactedIndex
                         + (IF AddressedRecord.h_flipped THEN H_FLIP ELSE 0)
                         + (IF AddressedRecord.v_flipped THEN V_FLIP ELSE 0)
        /\ Map.bitmap[AddressedCanonical + 1].unique
        /\ AddressedCompactedIndex = UniqueBefore(AddressedCanonical)
        /\ AddressedCompactedIndex \in 0 .. (TileCapacity - 1)
        /\ AddressedCompactedIndex < H_FLIP
        /\ H_FLIP + H_FLIP = V_FLIP
        /\ last.code < V_FLIP + V_FLIP

\* A code for a mirrored duplicate whose canonical cell was moved down.
C8_Witness ==
    /\ emitted > 0
    /\ ~ AddressedRecord.unique
    /\ AddressedRecord.h_flipped /\ ~ AddressedRecord.v_flipped
    /\ Map.bitmap[AddressedCanonical + 1].non_unique_tile_count > 0
    /\ last.code = H_FLIP + AddressedCompactedIndex
    /\ AddressedCompactedIndex > 0

\* The raw id of the cell the last iteration read, and the id the claim
\* resolves it to before the increment: the position in used_tiles plus
\* start_tile of the tileset whose range holds the raw id, or raw id - 1.
LastRaw == LayerAt(Map, last.base_id)
ClaimedResolved(raw) ==
    IF config.PREVENT_TILEMAP_MINIMIZATION THEN raw - 1
    ELSE LET n == CHOOSE n \in 1 .. Len(Map.tiles) :
                      Map.tiles[n].first_gid <= raw /\ raw < Map.tiles[n].last_gid
         IN  IndexOf(Map.tiles[n].used_tiles, raw - Map.tiles[n].first_gid)
                 + Map.tiles[n].start_tile

\* C20: a raw id of 0 resolves to tile_id 0, and for every non-empty raw id
\* the resolved id (used-tiles position plus start_tile, or raw id minus 1
\* when minimization is prevented) is incremented by one, so that tile_id 0
\* is produced by empty cells only.
C20_ZeroOnlyForEmptyCells ==
    emitted > 0 =>
        /\ LastRaw = 0 => last.tile_id = 0
        /\ LastRaw # 0 =>
              /\ last.tile_id = ClaimedResolved(LastRaw) + 1
              /\ last.tile_id # 0

(***************************************************************************)
(* SpecPalette: create_tilemap_palette of tilemap_compressor and of        *)
(* tilemap_minimizer on an image given pixel by pixel.                     *)
(***************************************************************************)
MaxPixels == 4           \* an image of SpecPalette has at most this many pixels

Colours == {Black, Pink, Red}

PixelShapes == { s \in (1..MaxPixels) \X (1..MaxPixels) : s[1] * s[2] <= MaxPixels }

PixelImages ==
    UNION { { [width |-> s[1], height |-> s[2], pixels |-> px] :
              px \in [1 .. (s[1] * s[2]) -> Colours] } : s \in PixelShapes }

\* tilemap_min.getpixel((x,y)).
PixelAt(img, x, y) == img.pixels[y * img.width + x + 1]

InList(c, list) == \E n \in 1 .. Len(list) : list[n] = c

\* The scan: for y, for x, append the pixel's colour if it is not in the list.
RECURSIVE ScanColours(_, _, _)
ScanColours(img, p, list) ==
    IF p >= img.width * img.height THEN list
    ELSE LET rgb == PixelAt(img, p % img.width, p \div img.width)
         IN  ScanColours(img, p + 1,
                         IF InList(rgb, list) THEN list ELSE Append(list, rgb))

\* tilemap_compressor.create_tilemap_palette after the scan, on the list
\* the scan built: the list it returns, or the end of the program.
palette_of(list) ==
    IF TooManyColours(Len(list)) THEN [outcome |-> "exit", palette_list |-> <<>>]
    ELSE [outcome |-> "returned",
          palette_list |-> [list EXCEPT ![1] = Pink]]

\* tilemap_compressor.create_tilemap_palette on a pixel image.
create_tilemap_palette(img) == palette_of(ScanColours(img, 0, <<>>))

\* BppMode with the comparison off by one.
BppModeStrict(list) == IF Len(list) < Bpp4Colours THEN "bpp_4" ELSE "bpp_8"

\* if len(palette_list) <= 16: "bpp_4", else "bpp_8".
BppMode(list) == IF Len(list) <= Bpp4Colours THEN "bpp_4" ELSE "bpp_8"

\* tilemap_minimizer.create_tilemap_palette.
tm_create_tilemap_palette(img) ==
    LET list == ScanColours(img, 0, <<>>)
    IN  IF Len(list) > PaletteCapacity THEN [outcome |-> "exit", palette_list |-> <<>>]
        ELSE [outcome |-> "returned",
              palette_list |->
                  IF list[1][1] = 0 /\ list[1][2] = 0 /\ list[1][3] = 0
                      THEN [list EXCEPT ![1] = Pink]
                  ELSE list]

PaletteInit ==
    /\ pc = "start"
    /\ image \in PixelImages
    /\ palette_list = <<>> /\ variant = None /\ bpp_mode = {}
    /\ DedupIdle /\ SizeIdle /\ BuildIdle /\ RemapIdle /\ CacheIdle /\ MiscIdle

CompressorPalette ==
    /\ pc = "start"
    /\ LET r == create_tilemap_palette(image)
       IN  /\ palette_list' = r.palette_list
           /\ pc' = IF r.outcome = "exit" THEN "exit" ELSE "palette"
           /\ bpp_mode' = IF r.outcome = "exit" THEN bpp_mode
                           ELSE {<<"palette.json", BppMode(r.palette_list)>>}
    /\ variant' = "tilemap_compressor"
    /\ UNCHANGED <<image, dedupVars, sizeVars, buildVars, remapVars, cacheVars, miscVars>>

MinimizerPalette ==
    /\ pc = "start"
    /\ LET r == tm_create_tilemap_palette(image)
       IN  /\ palette_list' = r.palette_list
           /\ pc' = IF r.outcome = "exit" THEN "exit" ELSE "palette"
    /\ variant' = "tilemap_minimizer"
    /\ UNCHANGED <<image, bpp_mode, dedupVars, sizeVars, buildVars, remapVars, cacheVars, miscVars>>

PaletteNext == CompressorPalette \/ MinimizerPalette

SpecPalette == PaletteInit /\ [][PaletteNext]_vars

(***************************************************************************)
(* Properties of SpecPalette.                                              *)
(***************************************************************************)
\* C9: palette slot 0 returned by create_tilemap_palette is always
\* (255,0,255), whatever colour the (0,0) pixel of the image has.
C9_SlotZeroIsPink ==
    pc = "palette" => palette_list[1] = Pink

\* C10: the palette returned by tilemap_compressor's create_tilemap_palette
\* is a sequence of pairwise distinct colours in first-seen raster order of
\* the image, slot 0 holding the sentinel, and (255,0,255) occurs at no
\* index other than 0, even when pink is a used colour elsewhere.
C10_DistinctAndPinkOnlyAtZero ==
    (pc = "palette" /\ variant = "tilemap_compressor") =>
        /\ \A m, n \in 1 .. Len(palette_list) :
              m # n => palette_list[m] # palette_list[n]
        /\ Len(palette_list) = Len(ScanColours(image, 0, <<>>))
        /\ \A n \in 2 .. Len(palette_list) :
              /\ palette_list[n] = ScanColours(image, 0, <<>>)[n]
              /\ palette_list[n] # Pink

(***************************************************************************)
(* SpecDepth: create_compressed_tileset of tilemap_compressor on atlases   *)
(* of up to 4 * DepthCells colours: compare_tiles, the canvas, the palette *)
(* scanned from the canvas and the bit depth written to the two JSON       *)
(* files.                                                                  *)
(***************************************************************************)
\* A quadrant of a tile holds one colour, so the scan of the canvas is run on
\* the pixel each quadrant starts with, in the order of the scan: every
\* other pixel repeats a colour the list holds already and appends nothing.
QuadrantSide == TileSize \div 2

\* for x in range(tilemap_min_width): ...; st = [list, x, y] holds the
\* palette list and the loops' variables.
RECURSIVE ScanRow(_, _)
ScanRow(st, canvas) ==
    IF st.x >= canvas.width THEN st
    ELSE LET rgb == getpixel(canvas, st.x, st.y)
         IN  ScanRow([list |-> IF InList(rgb, st.list) THEN st.list
                               ELSE Append(st.list, rgb),
                      x |-> st.x + QuadrantSide,
                      y |-> st.y],
                     canvas)

\* for y in range(tilemap_min_height): ...
RECURSIVE ScanRows(_, _)
ScanRows(st, canvas) ==
    IF st.y >= canvas.height THEN st
    ELSE ScanRows([ScanRow([st EXCEPT !.x = 0], canvas)
                      EXCEPT !.y = @ + QuadrantSide],
                  canvas)

ScanCanvas(canvas) == ScanRows([list |-> <<>>, x |-> 0, y |-> 0], canvas).list

\* The cells of an atlas of DepthCells cells in one row: cell b brings
\* kinds[b] new colours, or is the left-right mirror of cell 0 (kinds[b] = 0).
DepthKinds ==
    { kn \in [0 .. (DepthCells - 1) -> NewColours \cup {0}] : kn[0] # 0 }
DepthAtlas(kn) ==
    Atlas(<<DepthCells, 1>>,
          [c \in 1 .. DepthCells |->
              IF kn[c - 1] = 0 THEN QuadMirror(PartialTile(0, kn[0]))
              ELSE PartialTile(c - 1, kn[c - 1])])

DepthInit ==
    /\ pc = "start"
    /\ \E kn \in DepthKinds : tilemap_src = DepthAtlas(kn)
    /\ tilemap_tiles = <<>> /\ unique_tile_count = 0
    /\ min_size = None /\ min_rgb = NoImage /\ candidate = 0
    /\ SizeIdle /\ BuildIdle /\ RemapIdle /\ PalIdle /\ CacheIdle /\ MiscIdle

\* create_tilemap_palette(tilemap.min_rgb, ...): the scan, the check, slot 0,
\* the palette bitmap and its JSON file with the bit depth.
DepthPalette ==
    /\ pc = "compacted"
    /\ LET r == palette_of(ScanCanvas(min_rgb))
       IN  /\ palette_list' = r.palette_list
           /\ pc' = IF r.outcome = "exit" THEN "exit" ELSE "palette"
           /\ bpp_mode' = IF r.outcome = "exit" THEN bpp_mode
                           ELSE {<<"palette.json", BppMode(r.palette_list)>>}
    /\ variant' = "tilemap_compressor"
    /\ UNCHANGED <<image, dedupVars, sizeVars, buildVars, remapVars, cacheVars, miscVars>>

\* create_paletted_tilemap_image, then create_butano_json_import_file.
DepthImportFile ==
    /\ pc = "palette"
    /\ bpp_mode' = bpp_mode \cup {<<"tileset.json", BppMode(palette_list)>>}
    /\ pc' = "tileset"
    /\ UNCHANGED <<image, palette_list, variant,
                   dedupVars, sizeVars, buildVars, remapVars, cacheVars, miscVars>>

DepthNext ==
    \/ CompareTiles \/ CreateRgbTilemapImage
    \/ DepthPalette \/ DepthImportFile

SpecDepth == DepthInit /\ [][DepthNext]_vars

(***************************************************************************)
(* Properties of SpecDepth.                                                *)
(***************************************************************************)
\* The distinct colours of the source atlas.
SourceColours ==
    { tilemap_src.cells[c][q] : c \in DOMAIN tilemap_src.cells, q \in 1 .. 4 }

C11_WitnessDeep ==
    /\ pc = "tileset"
    /\ Cardinality(SourceColours) = Bpp4Colours + 1
    /\ bpp_mode = {<<"palette.json", "bpp_8">>, <<"tileset.json", "bpp_8">>}

(***************************************************************************)
(* SpecFormat: the first steps of create_compressed_tileset on atlases     *)
(* whose width and height are any number of pixels.  The program reads     *)
(* whole cells only (columns and rows are int(width/8) and int(height/8)), *)
(* so the pixels right of the last whole column and below the last whole   *)
(* row are not held by the model.                                          *)
(***************************************************************************)
ExtraPixels == {0, 4}    \* pixels beyond the last whole column or row

FormatShapes == { s \in (1..FormatCells) \X (1..FormatCells) : s[1] * s[2] <= FormatCells }

FormatAtlas(s, dx, dy, c) ==
    [width |-> s[1] * TileSize + dx, height |-> s[2] * TileSize + dy, cells |-> c]

FormatInit ==
    /\ pc = "start"
    /\ \E s \in FormatShapes : \E dx, dy \in ExtraPixels :
          \E c \in [1 .. (s[1] * s[2]) -> TileFamily] :
              tilemap_src = FormatAtlas(s, dx, dy, c)
    /\ tilemap_tiles = <<>> /\ unique_tile_count = 0
    /\ min_size = None /\ min_rgb = NoImage /\ candidate = 0
    /\ SizeIdle /\ BuildIdle /\ RemapIdle /\ PalIdle /\ CacheIdle /\ MiscIdle

FormatNext == CompareTiles \/ CreateRgbTilemapImage

SpecFormat == FormatInit /\ [][FormatNext]_vars

(***************************************************************************)
(* Properties of SpecFormat.                                               *)
(***************************************************************************)
WholeTiles(img) == img.width % TileSize = 0 /\ img.height % TileSize = 0

\* C13: an atlas whose pixel width or height is not an exact multiple of 8
\* is rejected: deduplication never goes on with a partial row or column of
\* pixels ignored, so no dedup table and no canvas is ever made from it.
C13_PartialCellsRejected ==
    ~ WholeTiles(tilemap_src) =>
        /\ pc \notin {"compared", "compacted"}
        /\ tilemap_tiles = <<>>
        /\ min_rgb = NoImage

(***************************************************************************)
(* SpecScan: compare_tiles, one iteration of its outer loops (one          *)
(* candidate cell) a step.                                                 *)
(***************************************************************************)
ScanInit ==
    /\ pc = "scan"
    /\ \E s \in Shapes : \E c \in [1 .. (s[1] * s[2]) -> TileFamily] :
          /\ tilemap_src = Atlas(s, c)
          /\ tilemap_tiles = [n \in 1 .. (s[1] * s[2]) |-> NewTile]
    /\ candidate = 0 /\ unique_tile_count = 0
    /\ min_size = None /\ min_rgb = NoImage
    /\ SizeIdle /\ BuildIdle /\ RemapIdle /\ PalIdle /\ CacheIdle /\ MiscIdle

\* The cell at <<x, y>> is not unique: continue.
SkipCandidate ==
    /\ pc = "scan"
    /\ candidate < Rows(tilemap_src) * Columns(tilemap_src)
    /\ ~ IsCandidate(tilemap_tiles[candidate + 1])
    /\ candidate' = candidate + 1
    /\ UNCHANGED <<pc, tilemap_src, tilemap_tiles, unique_tile_count, min_size,
                   min_rgb, sizeVars, buildVars, remapVars, palVars, cacheVars, miscVars>>

\* The cell at <<x, y>> is a candidate: the inner loops compare it with
\* every cell after it.
ScanCandidate ==
    /\ pc = "scan"
    /\ candidate < Rows(tilemap_src) * Columns(tilemap_src)
    /\ IsCandidate(tilemap_tiles[candidate + 1])
    /\ tilemap_tiles' = InnerLoop(tilemap_tiles, tilemap_src,
                                  candidate % Columns(tilemap_src),
                                  candidate \div Columns(tilemap_src))
    /\ candidate' = candidate + 1
    /\ UNCHANGED <<pc, tilemap_src, unique_tile_count, min_size,
                   min_rgb, sizeVars, buildVars, remapVars, palVars, cacheVars, miscVars>>

\* The outer loops are over: the unique cells are counted and returned.
ScanDone ==
    /\ pc = "scan"
    /\ candidate = Rows(tilemap_src) * Columns(tilemap_src)
    /\ unique_tile_count' = CountUnique(tilemap_tiles, Len(tilemap_tiles))
    /\ pc' = "compared"
    /\ UNCHANGED <<tilemap_src, tilemap_tiles, candidate, min_size,
                   min_rgb, sizeVars, buildVars, remapVars, palVars, cacheVars, miscVars>>

ScanNext == SkipCandidate \/ ScanCandidate \/ ScanDone

SpecScan == ScanInit /\ [][ScanNext]_vars

(***************************************************************************)
(* Properties of SpecScan.                                                 *)
(***************************************************************************)
\* A step leaves the record of every cell that is marked non-unique as it is.
MarkedStay ==
    \A c \in DOMAIN tilemap_tiles :
        ~ tilemap_tiles[c].unique => tilemap_tiles'[c] = tilemap_tiles[c]

\* The lowest cell that is equivalent to c under the four transforms.
LowestEquivalent(c) ==
    CHOOSE d \in Cells : SameClass(d, c) /\ \A e \in 1 .. (d - 1) : ~ SameClass(e, c)

\* No cell that is marked matches the candidate about to be scanned, and a
\* marked cell refers to the lowest cell of its class.
MarkedOnce ==
    /\ (pc = "scan" /\ candidate < Len(tilemap_tiles)
            /\ tilemap_tiles[candidate + 1].unique) =>
          \A c \in (candidate + 2) .. Len(tilemap_tiles) :
              ~ tilemap_tiles[c].unique => ~ SameClass(candidate + 1, c)
    /\ \A c \in Cells :
          ~ tilemap_tiles[c].unique => CanonicalOf(c) = LowestEquivalent(c)
    /\ pc = "compared" =>
          \A c \in Cells :
              tilemap_tiles[c].unique <=> LowestEquivalent(c) = c

\* C17: during compare_tiles the record of a cell is written by one
\* candidate at most: once a cell is marked non-unique no later candidate
\* matches it or changes its 'relative' or its flags, and the canonical of
\* every non-unique cell is the lowest cell equivalent to it under the four
\* transforms.
C17_SingleWriter == [][MarkedStay]_vars /\ []MarkedOnce

\* A candidate is about to be scanned while a cell after it is already
\* marked by an earlier candidate.
C17_Witness ==
    /\ pc = "scan"
    /\ candidate > 0 /\ candidate < Len(tilemap_tiles)
    /\ tilemap_tiles[candidate + 1].unique
    /\ \E c \in (candidate + 2) .. Len(tilemap_tiles) :
          /\ ~ tilemap_tiles[c].unique
          /\ tilemap_tiles[c].h_flipped

(***************************************************************************)
(* SpecAddress: the arithmetic at the head of the remapping loop's body    *)
(* (base_id, x_offset, y_offset, real_id) on maps of any small size and    *)
(* factor, over atlases of any small width, for any tile_id.               *)
(***************************************************************************)
AddressMapdicts ==
    { [map_width |-> w, map_height |-> h, map_tilesize |-> F * TileSize,
       images |-> <<>>, layer |-> <<>>, bw |-> b] :
        w \in 1 .. MaxSide, h \in 1 .. MaxSide, F \in 1 .. MaxFactor,
        b \in 1 .. MaxSide }

AddressInit ==
    /\ pc = "loop"
    /\ \E mapdict \in AddressMapdicts :
          Map = MapObject_init(mapdict, <<>>,
                               mapdict.bw * (mapdict.map_tilesize \div TileSize))
    /\ i = 0 /\ k = 0 /\ screenblock_2nd_half = FALSE
    /\ emitted = 0 /\ last = None /\ visited = {}
    /\ DedupIdle /\ SizeIdle /\ BuildIdle /\ PalIdle /\ CacheIdle /\ MiscIdle

\* The body of the loop up to real_id, for whatever tile_id the layer and
\* the tilesets give the cell, then the cursor's step.
AddressCell ==
    /\ pc = "loop"
    /\ InLayer(Map, i)
    /\ \E tid \in 0 .. MaxTileId :
          last' = [i |-> i, base_id |-> base_id(Map, i),
                   x_offset |-> x_offset(Map, i), y_offset |-> y_offset(Map, i),
                   tile_id |-> tid,
                   real_id |-> real_id(Map, tid, x_offset(Map, i), y_offset(Map, i))]
    /\ LET jump == ScreenblockJump(Map, i, k, screenblock_2nd_half)
       IN  /\ i' = jump.i + 1
           /\ k' = jump.k + 1
           /\ screenblock_2nd_half' = jump.half
    /\ emitted' = emitted + 1
    /\ UNCHANGED <<pc, Map, visited, dedupVars, sizeVars, buildVars, palVars, cacheVars, miscVars>>

AddressNext == AddressCell \/ LayerDone

SpecAddress == AddressInit /\ [][AddressNext]_vars

(***************************************************************************)
(* Properties of SpecAddress.                                              *)
(***************************************************************************)
\* The position whose meta-tile is b and whose sub-position is <<xo, yo>>.
PositionOf(b, xo, yo) ==
    LET F == Map.tilesize_factor
        tiles_per_row == Map.width \div F
    IN  ((b \div tiles_per_row) * F + yo) * Map.width + (b % tiles_per_row) * F + xo

\* C18: for a layer whose width W and height H are multiples of F and every
\* position i in 0..W*H-1, with col = i mod W and row = i div W: base_id is
\* (row div F)*(W/F) + (col div F), x_offset is col mod F and y_offset is
\* row mod F; base_id lies in 0..(W/F)*(H/F)-1, and the position is the only
\* one with its meta-tile and sub-position.
C18_MetaTileAddressing ==
    emitted > 0 =>
        LET W == Map.width
            H == Map.height
            F == Map.tilesize_factor
            col == last.i % W
            row == last.i \div W
        IN  /\ W % F = 0 /\ H % F = 0
            /\ last.i \in 0 .. (W * H - 1)
            /\ last.base_id = (row \div F) * (W \div F) + (col \div F)
            /\ last.x_offset = col % F
            /\ last.y_offset = row % F
            /\ last.base_id \in 0 .. ((W \div F) * (H \div F) - 1)
            /\ PositionOf(last.base_id, last.x_offset, last.y_offset) = last.i

\* A cell in the second row of tiles of a map of factor 3, at sub-position
\* <<2, 1>>.
C18_Witness ==
    /\ emitted > 0
    /\ Map.tilesize_factor = 3
    /\ Map.width > Map.tilesize_factor
    /\ last.base_id >= Map.width \div Map.tilesize_factor
    /\ last.x_offset = 2 /\ last.y_offset = 1

\* C19: for every tile_id, factor F and offsets 0 <= x_offset, y_offset < F,
\* real_id is the raster index, in an atlas bitmap_width*F cells wide, of the
\* cell at column (tile_id mod bitmap_width)*F + x_offset and row
\* (tile_id div bitmap_width)*F + y_offset.
C19_RealIdIsRasterIndex ==
    emitted > 0 =>
        LET F == Map.tilesize_factor
            column == (last.tile_id % Map.bitmap_width) * F + last.x_offset
            row == (last.tile_id \div Map.bitmap_width) * F + last.y_offset
        IN  /\ last.x_offset \in 0 .. (F - 1)
            /\ last.y_offset \in 0 .. (F - 1)
            /\ column < Map.bitmap_width * F
            /\ last.real_id = row * (Map.bitmap_width * F) + column

\* A tile in the second row of tiles of an atlas, at factor 2, lower right
\* cell of the tile.
C19_Witness ==
    /\ emitted > 0
    /\ Map.tilesize_factor = 2
    /\ Map.bitmap_width = 2
    /\ last.tile_id = 3
    /\ last.x_offset = 1 /\ last.y_offset = 1
    /\ last.real_id = 15

(***************************************************************************)
(* SpecTraverse: the cursor of the remapping loop (the loop's condition,   *)
(* the four jumps, the increments) over one layer, with the positions it   *)
(* has emitted a code at.  SpecTraverseFair adds that the loop keeps       *)
(* running while it can: the program has one thread.                       *)
(***************************************************************************)
TraverseFactors == {1, 2, 4, 8}

\* Sizes in hardware tiles: the two that engage the screenblock traversal,
\* sizes that miss its condition by the width or by the height, and small
\* maps.
TraverseSizes ==
    { <<ScreenblockWidth, HalfRows>>, <<ScreenblockWidth, FullRows>>,
      <<ScreenblockWidth, TileSize>>, <<HalfRows, HalfRows>> }
        \cup { <<w * TileSize, h * TileSize>> : w \in 1 .. MaxSide, h \in 1 .. MaxSide }

TraverseMapdicts ==
    { [map_width |-> sz[1] \div F, map_height |-> sz[2] \div F,
       map_tilesize |-> F * TileSize, images |-> <<>>, layer |-> <<>>] :
        sz \in TraverseSizes, F \in TraverseFactors }

TraverseInit ==
    /\ pc = "loop"
    /\ \E mapdict \in TraverseMapdicts : Map = MapObject_init(mapdict, <<>>, 0)
    /\ i = 0 /\ k = 0 /\ screenblock_2nd_half = FALSE
    /\ emitted = 0 /\ last = None /\ visited = {}
    /\ DedupIdle /\ SizeIdle /\ BuildIdle /\ PalIdle /\ CacheIdle /\ MiscIdle

\* One iteration of the loop, for its cursor: a code is emitted at i, then
\* the jumps and the increments.
TraverseCell ==
    /\ pc = "loop"
    /\ InLayer(Map, i)
    /\ last' = [i |-> i, base_id |-> base_id(Map, i),
                x_offset |-> x_offset(Map, i), y_offset |-> y_offset(Map, i),
                half |-> screenblock_2nd_half]
    /\ visited' = visited \cup {i}
    /\ LET jump == ScreenblockJump(Map, i, k, screenblock_2nd_half)
       IN  /\ i' = jump.i + 1
           /\ k' = jump.k + 1
           /\ screenblock_2nd_half' = jump.half
    /\ emitted' = emitted + 1
    /\ UNCHANGED <<pc, Map, dedupVars, sizeVars, buildVars, palVars, cacheVars, miscVars>>

TraverseNext == TraverseCell \/ LayerDone

SpecTraverse == TraverseInit /\ [][TraverseNext]_vars

SpecTraverseFair == SpecTraverse /\ WF_vars(TraverseNext)

(***************************************************************************)
(* Properties of SpecTraverse.                                             *)
(***************************************************************************)
Positions == 0 .. (Map.width * Map.height - 1)

\* Every code so far was emitted at a position of its own, inside the
\* layer, and a finished loop has been at every position.
EachPositionOnce ==
    /\ visited \subseteq Positions
    /\ Cardinality(visited) = emitted
    /\ pc = "done" => (emitted = Map.width * Map.height /\ visited = Positions)

\* C21: for every layer size and factor the traversal loop terminates, and
\* at termination it has emitted exactly width*height codes, one at every
\* position of 0..width*height-1, with the screenblock traversal or without.
C21_TraversalTerminatesComplete == <>(pc = "done") /\ []EachPositionOnce

\* A finished layer of 64 by 32 at factor 4.
C21_Witness ==
    /\ pc = "done"
    /\ screenblock_flip(Map)
    /\ Map.tilesize_factor = 4
    /\ emitted = ScreenblockWidth * HalfRows
    /\ visited = Positions

\* C22: when width is not 64 or height is neither 32 nor 64 the screenblock
\* traversal is never engaged: screenblock_2nd_half stays False, the cursor
\* advances by 1 per code and the codes are emitted in raster order
\* 0, 1, ..., width*height-1.
C22_PlainRasterWithoutScreenblock ==
    (Map.width # ScreenblockWidth \/ Map.height \notin {HalfRows, FullRows}) =>
        /\ ~ screenblock_2nd_half
        /\ i = emitted
        /\ emitted > 0 => (last.i = emitted - 1 /\ ~ last.half)
        /\ visited = 0 .. (emitted - 1)
        /\ pc = "done" => emitted = Map.width * Map.height

\* A layer 64 wide and 8 high, which misses the condition by its height, in
\* its second row.
C22_Witness ==
    /\ Map.width = ScreenblockWidth /\ Map.height = TileSize
    /\ emitted > ScreenblockWidth
    /\ last.i = emitted - 1


(***************************************************************************)
(* SpecCache: builds, changes of the source images and changes of the      *)
(* flags, as create_tilemap sees them through the files of the last        *)
(* generation.  The file system stamps a change with the reading of a      *)
(* clock of finite resolution: changes between two ticks carry one stamp.  *)
(***************************************************************************)
MaxVersion == 2
MaxClock == 2

\* The keys of mapdict['images'].
Images == {1, 2}

CacheConfigSet == [FORCE_IMAGE_GENERATION : BOOLEAN, PREVENT_TILEMAP_MINIMIZATION : BOOLEAN]

\* The dedup table compare_tiles computes: a function of the content of the
\* source images and of the flag that selects the atlas it is computed on.
NoTable == [versions |-> <<>>, minimized |-> FALSE]
TableOf(srcs, cfg) ==
    [versions |-> [img \in Images |-> srcs[img].version],
     minimized |-> cfg.PREVENT_TILEMAP_MINIMIZATION]

NoArtifacts == [exists |-> FALSE, bmp_ctime |-> 0, minimized |-> FALSE, tilemap |-> NoTable]

RECURSIVE latest_image_change_date(_, _, _)
latest_image_change_date(srcs, imgs, latest) ==
    IF imgs = {} THEN latest
    ELSE LET img == CHOOSE x \in imgs : TRUE
         IN  latest_image_change_date(srcs, imgs \ {img},
                 IF srcs[img].ctime > latest THEN srcs[img].ctime ELSE latest)

get_tiles(cached, cfg) ==
    [tiles |-> cached.tilemap,
     generate_image |->
        \/ (cfg.PREVENT_TILEMAP_MINIMIZATION /\ ~cached.minimized)
        \/ (~cfg.PREVENT_TILEMAP_MINIMIZATION /\ cached.minimized)]

\* The sidecar and the bitmap create_compressed_tileset leaves behind.
GeneratedArtifacts(srcs, cfg, now) ==
    [exists |-> TRUE, bmp_ctime |-> now,
     minimized |-> cfg.PREVENT_TILEMAP_MINIMIZATION,
     tilemap |-> TableOf(srcs, cfg)]

\* generate_image and tiles after the lookup of the cached table.
CacheLookup(srcs, cfg, files) ==
    IF /\ ~cfg.FORCE_IMAGE_GENERATION
       /\ files.exists
       /\ files.bmp_ctime >= latest_image_change_date(srcs, Images, -1)
    THEN get_tiles(files, cfg)
    ELSE [tiles |-> NoTable, generate_image |-> TRUE]

CacheInit ==
    /\ pc = "cache"
    /\ clock = 0
    /\ sources = [img \in Images |-> [version |-> 0, ctime |-> 0]]
    /\ artifacts = NoArtifacts
    /\ config \in CacheConfigSet
    /\ returned = [called |-> FALSE, generate_image |-> FALSE, tiles |-> NoTable,
                   before |-> [config |-> config, sources |-> sources,
                               artifacts |-> artifacts]]
    /\ map_data = None /\ combined_tilemap = <<>>
    /\ compiled_from = <<>> /\ pending = None
    /\ DedupIdle /\ SizeIdle /\ RemapIdle /\ PalIdle /\ MiscIdle

Tick ==
    /\ pc = "cache"
    /\ clock < MaxClock
    /\ clock' = clock + 1
    /\ UNCHANGED <<pc, sources, artifacts, dedupVars, sizeVars, buildVars, remapVars, palVars, miscVars>>

ModifySource ==
    /\ pc = "cache"
    /\ \E img \in Images :
        /\ sources[img].version < MaxVersion
        /\ sources' = [sources EXCEPT ![img] =
                          [version |-> sources[img].version + 1, ctime |-> clock]]
    /\ UNCHANGED <<pc, clock, artifacts, dedupVars, sizeVars, buildVars, remapVars, palVars, miscVars>>

ToggleMinimization ==
    /\ pc = "cache"
    /\ config' = [config EXCEPT !.PREVENT_TILEMAP_MINIMIZATION = ~@]
    /\ UNCHANGED <<pc, map_data, combined_tilemap, returned, compiled_from, pending,
                   cacheVars, dedupVars, sizeVars, remapVars, palVars, miscVars>>

ToggleForce ==
    /\ pc = "cache"
    /\ config' = [config EXCEPT !.FORCE_IMAGE_GENERATION = ~@]
    /\ UNCHANGED <<pc, map_data, combined_tilemap, returned, compiled_from, pending,
                   cacheVars, dedupVars, sizeVars, remapVars, palVars, miscVars>>

CreateTilemap ==
    /\ pc = "cache"
    /\ LET lookup == CacheLookup(sources, config, artifacts)
           before == [config |-> config, sources |-> sources, artifacts |-> artifacts]
       IN  IF lookup.generate_image
           THEN /\ artifacts' = GeneratedArtifacts(sources, config, clock)
                /\ returned' = [called |-> TRUE, generate_image |-> TRUE,
                                tiles |-> TableOf(sources, config), before |-> before]
           ELSE /\ artifacts' = artifacts
                /\ returned' = [called |-> TRUE, generate_image |-> FALSE,
                                tiles |-> lookup.tiles, before |-> before]
    /\ UNCHANGED <<pc, clock, sources, config, map_data, combined_tilemap,
                   compiled_from, pending, dedupVars, sizeVars, remapVars, palVars, miscVars>>

CacheNext ==
    \/ Tick
    \/ ModifySource
    \/ ToggleMinimization
    \/ ToggleForce
    \/ CreateTilemap

SpecCache == CacheInit /\ [][CacheNext]_vars

(***************************************************************************)
(* Properties of SpecCache.                                                *)
(***************************************************************************)
\* What the last call of create_tilemap found when it was made.
BitmapAsNew == \A img \in Images :
    returned.before.artifacts.bmp_ctime >= returned.before.sources[img].ctime
BitmapNewer == \A img \in Images :
    returned.before.artifacts.bmp_ctime > returned.before.sources[img].ctime
CacheConditions ==
    /\ ~returned.before.config.FORCE_IMAGE_GENERATION
    /\ returned.before.artifacts.exists
    /\ BitmapAsNew
    /\ returned.before.artifacts.minimized
          = returned.before.config.PREVENT_TILEMAP_MINIMIZATION
CurrentTable ==
    [versions |-> [img \in Images |-> returned.before.sources[img].version],
     minimized |-> returned.before.config.PREVENT_TILEMAP_MINIMIZATION]

\* C23: create_tilemap returns the cached table exactly when
\* generation is not forced, the sidecar exists, the bitmap is at least as
\* new as every source image and the recorded flag is the current one, and
\* the table it returns is the table of the current images and flag.
C23_ReturnedTableIsCurrent ==
    returned.called =>
        /\ ~returned.generate_image <=> CacheConditions
        /\ returned.tiles = CurrentTable

\* What does hold: the cached table is returned exactly under the four
\* conditions, the table returned always has the current flag, and it is
\* the table of the current images when it was regenerated or when the
\* bitmap is strictly newer than every source image.
CachedOnlyUnderConditions ==
    returned.called =>
        /\ ~returned.generate_image <=> CacheConditions
        /\ returned.tiles.minimized = returned.before.config.PREVENT_TILEMAP_MINIMIZATION
        /\ (returned.generate_image \/ BitmapNewer) => returned.tiles = CurrentTable


(***************************************************************************)
(* SpecMapSize: calculate_unordered_map_size on the number of maps or of   *)
(* sprites.                                                                *)
(***************************************************************************)
MaxLength == 130

\* 1 << size
RECURSIVE ShiftLeft(_)
ShiftLeft(size) == IF size = 0 THEN 1 ELSE 2 * ShiftLeft(size - 1)

RECURSIVE GrowSize(_, _)
GrowSize(len, size) ==
    IF len > ShiftLeft(size) THEN GrowSize(len, size + 1) ELSE size

calculate_unordered_map_size(len) == ShiftLeft(GrowSize(len, 1))

MapSizeInit ==
    /\ pc = "call"
    /\ length \in 0 .. MaxLength
    /\ map_size = 0
    /\ tilemap_min_p = <<>> /\ tilelist = <<>>
    /\ DedupIdle /\ SizeIdle /\ BuildIdle /\ RemapIdle /\ PalIdle /\ CacheIdle

CalculateUnorderedMapSize ==
    /\ pc = "call"
    /\ map_size' = calculate_unordered_map_size(length)
    /\ pc' = "returned"
    /\ UNCHANGED <<length, tilemap_min_p, tilelist,
                   dedupVars, sizeVars, buildVars, remapVars, palVars, cacheVars>>

MapSizeNext == CalculateUnorderedMapSize

SpecMapSize == MapSizeInit /\ [][MapSizeNext]_vars

(***************************************************************************)
(* Properties of SpecMapSize.                                              *)
(***************************************************************************)
PowersOfTwo == { ShiftLeft(n) : n \in 0 .. 9 }

\* C24: calculate_unordered_map_size(length) returns the smallest power of
\* two strictly greater than length, for every length >= 0.
C24_SmallestPowerAboveLength ==
    pc = "returned" =>
        /\ map_size \in PowersOfTwo
        /\ map_size > length
        /\ \A p \in PowersOfTwo : p > length => map_size <= p

\* What does hold: the result is the smallest power of two that is at least
\* 2 and not smaller than length.
SmallestPowerNotBelowLength ==
    pc = "returned" =>
        /\ map_size \in PowersOfTwo
        /\ map_size >= length /\ map_size >= 2
        /\ \A p \in PowersOfTwo : (p >= length /\ p >= 2) => map_size <= p


(***************************************************************************)
(* SpecSlots: the slot cursor of create_rgb_tilemap_image on atlases with  *)
(* up to 960 unique cells.  The cursor depends on the unique flags and on  *)
(* the canvas size only, so the atlas is given by its flags: cell c is a   *)
(* duplicate when the period is not 0 and c + 1 is a multiple of it.       *)
(***************************************************************************)
DuplicatePeriods == {0, 3}

\* tilemap_tiles[c]['unique'] for the cell of raster index c.
UniqueAt(tt, c) == tt.period = 0 \/ (c + 1) % tt.period # 0

\* The number of cells of an atlas whose flags follow the period and that
\* has count unique cells, the last cell being unique.
CellsFor(count, period) ==
    IF period = 0 THEN count
    ELSE count + ((count - 1) \div (period - 1))

\* The body of the loops of create_rgb_tilemap_image for the cell of raster
\* index c, on the cursor st = [i, j, non_unique_tiles]; slot is where the
\* cell was pasted.
SlotStep(st, tt, c, min_width) ==
    LET u == UniqueAt(tt, c)
        j1 == st.j + 1
        wrap == RowFull(j1, min_width)
        nu == NonUniqueAfter(st.non_unique_tiles, u)
    IN  [i |-> IF u /\ wrap THEN st.i + 1 ELSE st.i,
         j |-> IF u THEN (IF wrap THEN 0 ELSE j1) ELSE st.j,
         non_unique_tiles |-> nu,
         cell |-> c,
         unique |-> u,
         slot |-> [column |-> st.j, row |-> st.i],
         non_unique_tile_count |-> nu]

SlotsInit ==
    /\ pc = "slots"
    /\ unique_tile_count \in 1 .. TileCapacity
    /\ \E period \in DuplicatePeriods :
          tilemap_tiles = [cells |-> CellsFor(unique_tile_count, period),
                           period |-> period]
    /\ min_size = get_tilemap_size(unique_tile_count)
    /\ candidate = 0
    /\ last = [i |-> 0, j |-> 0, non_unique_tiles |-> 0, cell |-> -1,
               unique |-> FALSE, slot |-> [column |-> 0, row |-> 0],
               non_unique_tile_count |-> 0]
    /\ tilemap_src = NoImage /\ min_rgb = NoImage
    /\ Map = None /\ i = 0 /\ k = 0 /\ screenblock_2nd_half = FALSE
    /\ emitted = 0 /\ visited = {}
    /\ SizeIdle /\ BuildIdle /\ PalIdle /\ CacheIdle /\ MiscIdle

PlaceCell ==
    /\ pc = "slots"
    /\ candidate < tilemap_tiles.cells
    /\ last' = SlotStep(last, tilemap_tiles, candidate, min_size[1])
    /\ emitted' = IF UniqueAt(tilemap_tiles, candidate) THEN emitted + 1 ELSE emitted
    /\ candidate' = candidate + 1
    /\ UNCHANGED <<pc, tilemap_src, tilemap_tiles, unique_tile_count, min_size, min_rgb,
                   Map, i, k, screenblock_2nd_half, visited,
                   sizeVars, buildVars, palVars, cacheVars, miscVars>>

SlotsDone ==
    /\ pc = "slots"
    /\ candidate >= tilemap_tiles.cells
    /\ pc' = "slotted"
    /\ UNCHANGED <<dedupVars, sizeVars, buildVars, remapVars, palVars, cacheVars, miscVars>>

SlotsNext == PlaceCell \/ SlotsDone

SpecSlots == SlotsInit /\ [][SlotsNext]_vars

(***************************************************************************)
(* Properties of SpecSlots.                                                *)
(***************************************************************************)
CanvasColumns == min_size[1] \div TileSize
CanvasRows == min_size[2] \div TileSize

\* The compacted index of the cell placed last, and the number of unique
\* cells placed before it.
LastCompactedIndex == last.cell - last.non_unique_tile_count
PlacedBefore == emitted - 1

\* C25: the k-th unique cell in raster order is placed at slot column
\* k mod (min_width/8), row k div (min_width/8); for every count up to 960
\* that slot lies inside the canvas of get_tilemap_size; and k is the cell's
\* raster index minus its non_unique_tile_count, so the compacted indices of
\* the unique cells are 0, 1, ..., U-1 in raster order.
C25_SlotOfCompactedIndex ==
    /\ (last.cell >= 0 /\ last.unique) =>
          /\ LastCompactedIndex = PlacedBefore
          /\ last.slot.column = PlacedBefore % CanvasColumns
          /\ last.slot.row = PlacedBefore \div CanvasColumns
          /\ last.slot.column < CanvasColumns
          /\ last.slot.row < CanvasRows
    /\ pc = "slotted" => emitted = unique_tile_count

C25_Witness ==
    /\ pc = "slotted"
    /\ unique_tile_count = TileCapacity
    /\ tilemap_tiles.period # 0
    /\ last.unique
    /\ last.slot.row > 0 /\ last.slot.column > 0


(***************************************************************************)
(* SpecPaletted: the palette of a compacted atlas is built and the atlas   *)
(* is written again as palette indices.                                    *)
(***************************************************************************)
Unassigned == -1

\* The body of the pixel loop: pindex after the try statement for a pixel
\* of colour rgb; a pindex that no statement assigned keeps the value it had.
PindexAfter(list, rgb, pindex) ==
    IF InList(rgb, list) THEN IndexOf(list, rgb)
    ELSE IF rgb = Black
         THEN (IF InList(Pink, list) THEN IndexOf(list, Pink) ELSE Unassigned)
         ELSE pindex

\* The pixel loop from pixel p on; st = [pindex, pixels, leftover] holds the
\* local variable, the indices written and the pixels that were written
\* with the index of the pixel before them.
RECURSIVE PalettedLoop(_, _, _, _)
PalettedLoop(img, list, p, st) ==
    IF p >= img.width * img.height
        THEN [outcome |-> "saved", pixels |-> st.pixels, leftover |-> st.leftover]
    ELSE LET rgb == PixelAt(img, p % img.width, p \div img.width)
             assigned == InList(rgb, list) \/ rgb = Black
             pindex == PindexAfter(list, rgb, st.pindex)
         IN  IF ~InList(rgb, list) /\ rgb = Black /\ ~InList(Pink, list)
                 THEN [outcome |-> "ValueError", pixels |-> st.pixels,
                       leftover |-> st.leftover]
             ELSE IF pindex = Unassigned
                 THEN [outcome |-> "UnboundLocalError", pixels |-> st.pixels,
                       leftover |-> st.leftover]
             ELSE PalettedLoop(img, list, p + 1,
                      [pindex |-> pindex,
                       pixels |-> Append(st.pixels, pindex),
                       leftover |-> IF assigned THEN st.leftover
                                    ELSE st.leftover \cup {p}])

create_paletted_tilemap_image(img, list) ==
    PalettedLoop(img, list, 0, [pindex |-> Unassigned, pixels |-> <<>>, leftover |-> {}])

CreatePalettedTilemapImage ==
    /\ pc = "palette"
    /\ tilemap_min_p' = create_paletted_tilemap_image(image, palette_list)
    /\ pc' = "paletted"
    /\ UNCHANGED <<length, map_size, tilelist, palVars,
                   dedupVars, sizeVars, buildVars, remapVars, cacheVars>>

PalettedNext == CompressorPalette \/ MinimizerPalette \/ CreatePalettedTilemapImage

SpecPaletted == PaletteInit /\ [][PalettedNext]_vars

(***************************************************************************)
(* Properties of SpecPaletted.                                             *)
(***************************************************************************)
OriginColour == PixelAt(image, 0, 0)

IndexIsOwnOrOrigin(p) ==
    LET rgb == PixelAt(image, p % image.width, p \div image.width)
        idx == tilemap_min_p.pixels[p + 1]
    IN  \/ palette_list[idx + 1] = rgb
        \/ (rgb = OriginColour /\ idx = 0)

\* C26: every pixel of the compacted atlas is written with a defined palette
\* index: the index of its own colour, or 0 when it has the colour of the
\* origin pixel that slot 0 replaced; for every origin colour, and never
\* with an unassigned index or the index left over from the pixel before.
C26_EveryPixelIndexed ==
    (pc = "paletted" /\ variant = "tilemap_compressor") =>
        /\ tilemap_min_p.outcome = "saved"
        /\ tilemap_min_p.leftover = {}
        /\ Len(tilemap_min_p.pixels) = image.width * image.height
        /\ \A p \in 0 .. (image.width * image.height - 1) : IndexIsOwnOrOrigin(p)

\* What does hold: with a black or pink origin pixel every pixel is written
\* with the index of its own colour or, for the origin's black, with 0.
IndexedForBlackOrPinkOrigin ==
    (pc = "paletted" /\ variant = "tilemap_compressor" /\ OriginColour \in {Black, Pink}) =>
        /\ tilemap_min_p.outcome = "saved"
        /\ tilemap_min_p.leftover = {}
        /\ \A p \in 0 .. (image.width * image.height - 1) : IndexIsOwnOrOrigin(p)

\* and tilemap_minimizer, which replaces slot 0 only when it is black,
\* writes every pixel for every origin colour.
MinimizerIndexesEveryPixel ==
    (pc = "paletted" /\ variant = "tilemap_minimizer") =>
        /\ tilemap_min_p.outcome = "saved"
        /\ tilemap_min_p.leftover = {}
        /\ \A p \in 0 .. (image.width * image.height - 1) : IndexIsOwnOrOrigin(p)


(***************************************************************************)
(* SpecTranslate: the loop over the tilesets that translates one raw id,   *)
(* one tileset per step.                                                   *)
(***************************************************************************)
\* A tileset of the map with its range of raw ids, every tile of it used,
\* and the place of its first tile in the shared atlas.
Tileset(first_gid, size, start_tile) ==
    [first_gid |-> first_gid, last_gid |-> first_gid + size,
     used_tiles |-> [n \in 1 .. size |-> n - 1], start_tile |-> start_tile]

\* Two tilesets of a and b tiles with adjoining ranges of raw ids, in the
\* two orders self.tiles can hold them; the atlas holds them in that order.
TranslateTilesets ==
    UNION { { << Tileset(1, a, 0), Tileset(a + 1, b, a) >>,
              << Tileset(a + 1, b, 0), Tileset(1, a, b) >> } :
            a \in 1 .. MaxTileId, b \in 1 .. MaxTileId }

TranslateInit ==
    /\ pc = "translate"
    /\ config = [PREVENT_TILEMAP_MINIMIZATION |-> FALSE]
    /\ \E ts \in TranslateTilesets : \E raw \in 0 .. (2 * MaxTileId) :
          /\ raw < ts[1].last_gid \/ raw < ts[2].last_gid
          /\ Map = [tiles |-> ts, tilemap |-> <<raw>>]
          /\ last = [tile_id |-> raw, tileset |-> 1, translations |-> 0]
    /\ i = 0 /\ k = 0 /\ screenblock_2nd_half = FALSE
    /\ emitted = 0 /\ visited = {}
    /\ map_data = None /\ combined_tilemap = <<>> /\ returned = None
    /\ compiled_from = <<>> /\ pending = None
    /\ DedupIdle /\ SizeIdle /\ PalIdle /\ CacheIdle /\ MiscIdle

\* One iteration of "for tile in self.tiles".
TranslateStep ==
    /\ pc = "translate"
    /\ last.tileset <= Len(Map.tiles)
    /\ LET tile == Map.tiles[last.tileset]
           matches == tile.first_gid <= last.tile_id /\ last.tile_id < tile.last_gid
       IN  IF ~matches
               THEN /\ last' = [last EXCEPT !.tileset = @ + 1]
                    /\ pc' = pc
           ELSE IF ~InList(last.tile_id - tile.first_gid, tile.used_tiles)
               THEN /\ last' = last
                    /\ pc' = "ValueError"
           ELSE /\ last' = [tile_id |-> IndexOf(tile.used_tiles,
                                                 last.tile_id - tile.first_gid)
                                            + tile.start_tile,
                            tileset |-> last.tileset + 1,
                            translations |-> last.translations + 1]
                /\ pc' = pc
    /\ UNCHANGED <<Map, i, k, screenblock_2nd_half, emitted, visited,
                   dedupVars, sizeVars, buildVars, palVars, cacheVars, miscVars>>

TranslateDone ==
    /\ pc = "translate"
    /\ last.tileset > Len(Map.tiles)
    /\ pc' = "translated"
    /\ UNCHANGED <<dedupVars, sizeVars, buildVars, remapVars, palVars, cacheVars, miscVars>>

TranslateNext == TranslateStep \/ TranslateDone

SpecTranslate == TranslateInit /\ [][TranslateNext]_vars

(***************************************************************************)
(* Properties of SpecTranslate.                                            *)
(***************************************************************************)
TranslatedRaw == Map.tilemap[1]

Owns(tile, raw) == tile.first_gid <= raw /\ raw < tile.last_gid

\* The raw id translated by the tileset whose range it lies in.
TranslatedByOwner ==
    LET tile == CHOOSE t \in { Map.tiles[n] : n \in 1 .. Len(Map.tiles) } :
                    Owns(t, TranslatedRaw)
    IN  IndexOf(tile.used_tiles, TranslatedRaw - tile.first_gid) + tile.start_tile

AscendingOrder == Map.tiles[1].first_gid < Map.tiles[2].first_gid

\* C27: with minimization active a non-empty raw id that lies in one
\* tileset's range is translated exactly once, and the translated value is
\* never matched and translated again by a later tileset of the loop, in
\* every order of the tilesets.
C27_TranslatedOnce ==
    TranslatedRaw # 0 =>
        /\ last.translations <= 1
        /\ pc # "ValueError"
        /\ pc = "translated" =>
              (last.translations = 1 /\ last.tile_id = TranslatedByOwner)

\* What does hold: when self.tiles holds the tilesets in the order of their
\* ranges, the raw id is translated once, by its own tileset.
TranslatedOnceInAscendingOrder ==
    (TranslatedRaw # 0 /\ AscendingOrder) =>
        /\ last.translations <= 1
        /\ pc # "ValueError"
        /\ pc = "translated" =>
              (last.translations = 1 /\ last.tile_id = TranslatedByOwner)


(***************************************************************************)
(* SpecText: the text of a layer's tile list, character by character.      *)
(***************************************************************************)
MaxTextSide == 4
IndentWidth == 8
GroupSize == 16

DigitChars == <<"0", "1", "2", "3", "4", "5", "6", "7", "8", "9">>

\* str(real_id) for a non-negative real_id.
RECURSIVE str(_)
str(n) == IF n < 10 THEN <<DigitChars[n + 1]>>
          ELSE str(n \div 10) \o <<DigitChars[(n % 10) + 1]>>

Indent == [n \in 1 .. IndentWidth |-> " "]

\* tilelist[:-8]
StripIndent(text) ==
    IF Len(text) <= IndentWidth THEN <<>>
    ELSE SubSeq(text, 1, Len(text) - IndentWidth)

\* The codes of a layer: the code of the cell at position c, for a layer
\* whose codes start at first; with and without flip bits, one digit and
\* more.
FirstCodes == {0, 7, H_FLIP - 4}
CodeAt(first, c) == first + c

\* What the body of the loop appends for the code emitted at position c.
TextAfter(text, M, c, code) ==
    LET t1 == text \o str(code) \o <<",">>
        t2 == IF (c + 1) % M.width = 0 /\ c > 0 THEN t1 \o <<"\n">> ELSE t1
        t3 == IF (c + 1) % GroupSize = 0 /\ c > 0 THEN t2 \o <<"\n">> \o Indent ELSE t2
    IN  t3

TextSizes ==
    { <<w, h>> : w \in 1 .. MaxTextSide, h \in 1 .. MaxTextSide }
        \cup { <<GroupSize, 1>>, <<GroupSize, 2>>, <<TileSize, 2>>, <<TileSize, 3>> }

TextMapdicts ==
    { [map_width |-> sz[1], map_height |-> sz[2], map_tilesize |-> TileSize,
       images |-> <<>>, layer |-> <<>>] : sz \in TextSizes }

TextInit ==
    /\ pc = "loop"
    /\ \E mapdict \in TextMapdicts : Map = MapObject_init(mapdict, <<>>, 0)
    /\ \E first \in FirstCodes : last = [i |-> -1, first |-> first, codes |-> <<>>]
    /\ tilelist = Indent
    /\ i = 0 /\ k = 0 /\ screenblock_2nd_half = FALSE
    /\ emitted = 0 /\ visited = {}
    /\ length = 0 /\ map_size = 0 /\ tilemap_min_p = <<>>
    /\ DedupIdle /\ SizeIdle /\ BuildIdle /\ PalIdle /\ CacheIdle

\* One iteration of the loop, for the text: the code and its comma, the
\* line ends, then the jumps and the increments.
TextCell ==
    /\ pc = "loop"
    /\ InLayer(Map, i)
    /\ LET code == CodeAt(last.first, i)
       IN  /\ tilelist' = TextAfter(tilelist, Map, i, code)
           /\ last' = [i |-> i, first |-> last.first, codes |-> Append(last.codes, code)]
    /\ LET jump == ScreenblockJump(Map, i, k, screenblock_2nd_half)
       IN  /\ i' = jump.i + 1
           /\ k' = jump.k + 1
           /\ screenblock_2nd_half' = jump.half
    /\ emitted' = emitted + 1
    /\ UNCHANGED <<pc, Map, visited, length, map_size, tilemap_min_p,
                   dedupVars, sizeVars, buildVars, palVars, cacheVars>>

\* self.tilelist += tilelist[:-8]
AppendTilelist ==
    /\ pc = "loop"
    /\ ~ InLayer(Map, i)
    /\ tilelist' = StripIndent(tilelist)
    /\ pc' = "done"
    /\ UNCHANGED <<length, map_size, tilemap_min_p,
                   dedupVars, sizeVars, buildVars, remapVars, palVars, cacheVars>>

TextNext == TextCell \/ AppendTilelist

SpecText == TextInit /\ [][TextNext]_vars

(***************************************************************************)
(* Properties of SpecText.                                                 *)
(***************************************************************************)
IsCodeChar(ch) == ch \notin {" ", "\n"}

\* The emitted codes, each with its comma, one after the other.
RECURSIVE JoinedCodes(_)
JoinedCodes(codes) ==
    IF codes = <<>> THEN <<>>
    ELSE str(Head(codes)) \o <<",">> \o JoinedCodes(Tail(codes))

CodesIntact == SelectSeq(tilelist, IsCodeChar) = JoinedCodes(last.codes)

\* C28: for every layer the text appended to the tile list holds all
\* width*height emitted codes intact: the removal of the last 8 characters
\* takes only the indentation written after a full group of 16, also when
\* width*height is not a multiple of 16.
C28_AllCodesInText ==
    pc = "done" =>
        /\ Len(last.codes) = Map.width * Map.height
        /\ CodesIntact

\* What does hold: the codes are intact when width*height is a multiple of
\* 16, the only case in which the text ends with the indentation.
CodesIntactForFullGroups ==
    (pc = "done" /\ (Map.width * Map.height) % GroupSize = 0) =>
        /\ Len(last.codes) = Map.width * Map.height
        /\ CodesIntact


(***************************************************************************)
(* SpecThree: the remapping loop as tilemap_minimizer.create_tilemap_data, *)
(* mapdata_generator.calculate_tilemap_data and                            *)
(* MapObject.calculate_tilemap_data run it, iteration by iteration, on a   *)
(* map of 16 pixel tiles.                                                  *)
(***************************************************************************)
MinimizerFactor == 2

\* tilemap_minimizer.create_tilemap_data: base_id, x_offset, y_offset.
tm_base_id(width, c) ==
    ((c - (c \div width) * width) \div MinimizerFactor)
        + (c \div (width * MinimizerFactor)) * (width \div MinimizerFactor)
tm_x_offset(c) == c % MinimizerFactor
tm_y_offset(width, c) == (c \div width) % MinimizerFactor

\* tm_jump that takes the whole width for the run of a half.
tm_jump_whole_width(width, height, c, run, half) ==
    LET sf == width = ScreenblockWidth /\ height \in {HalfRows, FullRows}
        s0 == [i |-> c, k |-> run, half |-> half]
    IN  IF sf /\ s0.k = width - 1 THEN [s0 EXCEPT !.i = @ + width, !.k = -1] ELSE s0

\* tilemap_minimizer.create_tilemap_data: the four jumps.
tm_jump(width, height, c, run, half) ==
    LET w  == width \div MinimizerFactor
        sf == width = ScreenblockWidth /\ height \in {HalfRows, FullRows}
        s0 == [i |-> c, k |-> run, half |-> half]
        s1 == IF sf /\ s0.k = w - 1
                  THEN [s0 EXCEPT !.i = @ + w, !.k = -1] ELSE s0
        s2 == IF sf /\ ~ s1.half /\ s1.i = width * HalfRows - 1
                  THEN [s1 EXCEPT !.i = w - 1, !.half = TRUE] ELSE s1
        s3 == IF sf /\ s2.half /\ s2.i = width * HalfRows + w - 1
                  THEN [s2 EXCEPT !.i = width * HalfRows - 1, !.half = FALSE]
                  ELSE s2
        s4 == IF sf /\ ~ s3.half /\ s3.i = width * FullRows - 1
                  THEN [s3 EXCEPT !.i = width * HalfRows + w - 1, !.half = TRUE]
                  ELSE s3
    IN  s4

\* mapdata_generator.calculate_tilemap_data: base_id, x_offset, y_offset
\* and the four jumps, on the Map it is given.
mg_base_id(M, c) ==
    ((c - (c \div M.width) * M.width) \div M.tilesize_factor)
        + (c \div (M.width * M.tilesize_factor)) * (M.width \div M.tilesize_factor)
mg_x_offset(M, c) == c % M.tilesize_factor
mg_y_offset(M, c) == (c \div M.width) % M.tilesize_factor
mg_jump(M, c, run, half) ==
    LET w  == M.width \div M.tilesize_factor
        sf == M.width = ScreenblockWidth /\ M.height \in {HalfRows, FullRows}
        s0 == [i |-> c, k |-> run, half |-> half]
        s1 == IF sf /\ s0.k = w - 1
                  THEN [s0 EXCEPT !.i = @ + w, !.k = -1] ELSE s0
        s2 == IF sf /\ ~ s1.half /\ s1.i = M.width * HalfRows - 1
                  THEN [s1 EXCEPT !.i = w - 1, !.half = TRUE] ELSE s1
        s3 == IF sf /\ s2.half /\ s2.i = M.width * HalfRows + w - 1
                  THEN [s2 EXCEPT !.i = M.width * HalfRows - 1, !.half = FALSE]
                  ELSE s2
        s4 == IF sf /\ ~ s3.half /\ s3.i = M.width * FullRows - 1
                  THEN [s3 EXCEPT !.i = M.width * HalfRows + w - 1, !.half = TRUE]
                  ELSE s3
    IN  s4

\* Maps of 16 pixel tiles: create_tilemap_data is called with twice the
\* map's width and height, MapObject.init computes the same.
ThreeSizes ==
    { <<ScreenblockWidth, HalfRows>>, <<ScreenblockWidth, FullRows>>,
      <<ScreenblockWidth, TileSize>>, <<HalfRows, HalfRows>> }
        \cup { <<w * MinimizerFactor, h * MinimizerFactor>> :
                 w \in 1 .. MaxSide, h \in 1 .. MaxSide }

ThreeMapdicts ==
    { [map_width |-> sz[1] \div MinimizerFactor, map_height |-> sz[2] \div MinimizerFactor,
       map_tilesize |-> MinimizerFactor * TileSize, images |-> <<>>, layer |-> <<>>] :
        sz \in ThreeSizes }

NoStep == [i |-> -1, base_id |-> -1, x_offset |-> -1, y_offset |-> -1]
StartCursor == [i |-> 0, k |-> 0, half |-> FALSE]

ThreeInit ==
    /\ pc = "loop"
    /\ \E mapdict \in ThreeMapdicts : Map = MapObject_init(mapdict, <<>>, 0)
    /\ i = 0 /\ k = 0 /\ screenblock_2nd_half = FALSE
    /\ emitted = 0 /\ visited = {}
    /\ last = [tm_cursor |-> StartCursor, mg_cursor |-> StartCursor,
               tm |-> NoStep, mg |-> NoStep, mo |-> NoStep,
               tm_running |-> TRUE, mg_running |-> TRUE, mo_running |-> TRUE]
    /\ DedupIdle /\ SizeIdle /\ BuildIdle /\ PalIdle /\ CacheIdle /\ MiscIdle

\* The next iteration of each of the three loops that has not ended.
ThreeStep ==
    /\ pc = "loop"
    /\ LET width == Map.width
           height == Map.height
           tc == last.tm_cursor
           gc == last.mg_cursor
           tm_in == tc.i < width * height
           mg_in == gc.i < Map.width * Map.height
           mo_in == InLayer(Map, i)
           tj == tm_jump(width, height, tc.i, tc.k, tc.half)
           gj == mg_jump(Map, gc.i, gc.k, gc.half)
           oj == ScreenblockJump(Map, i, k, screenblock_2nd_half)
       IN  /\ tm_in \/ mg_in \/ mo_in
           /\ last' =
                [tm_cursor |-> IF tm_in
                                 THEN [i |-> tj.i + 1, k |-> tj.k + 1, half |-> tj.half]
                               ELSE tc,
                 mg_cursor |-> IF mg_in
                                 THEN [i |-> gj.i + 1, k |-> gj.k + 1, half |-> gj.half]
                               ELSE gc,
                 tm |-> IF tm_in
                          THEN [i |-> tc.i, base_id |-> tm_base_id(width, tc.i),
                                x_offset |-> tm_x_offset(tc.i),
                                y_offset |-> tm_y_offset(width, tc.i)]
                        ELSE last.tm,
                 mg |-> IF mg_in
                          THEN [i |-> gc.i, base_id |-> mg_base_id(Map, gc.i),
                                x_offset |-> mg_x_offset(Map, gc.i),
                                y_offset |-> mg_y_offset(Map, gc.i)]
                        ELSE last.mg,
                 mo |-> IF mo_in
                          THEN [i |-> i, base_id |-> base_id(Map, i),
                                x_offset |-> x_offset(Map, i),
                                y_offset |-> y_offset(Map, i)]
                        ELSE last.mo,
                 tm_running |-> tm_in, mg_running |-> mg_in, mo_running |-> mo_in]
           /\ IF mo_in
                 THEN /\ i' = oj.i + 1
                      /\ k' = oj.k + 1
                      /\ screenblock_2nd_half' = oj.half
              ELSE UNCHANGED <<i, k, screenblock_2nd_half>>
    /\ emitted' = emitted + 1
    /\ UNCHANGED <<pc, Map, visited, dedupVars, sizeVars, buildVars, palVars, cacheVars, miscVars>>

\* The three loops have ended.
ThreeDone ==
    /\ pc = "loop"
    /\ ~ (last.tm_cursor.i < Map.width * Map.height)
    /\ ~ (last.mg_cursor.i < Map.width * Map.height)
    /\ ~ InLayer(Map, i)
    /\ pc' = "done"
    /\ UNCHANGED <<dedupVars, sizeVars, buildVars, remapVars, palVars, cacheVars, miscVars>>

ThreeNext == ThreeStep \/ ThreeDone

SpecThree == ThreeInit /\ [][ThreeNext]_vars

(***************************************************************************)
(* Properties of SpecThree.                                                *)
(***************************************************************************)
\* C29: for factor 2 and every layer width and height the three
\* implementations of the remapping loop visit the same sequence of cursor
\* positions i and compute the same base_id, x_offset and y_offset at
\* every step.
C29_ThreeLoopsAgree ==
    emitted > 0 =>
        /\ last.tm_running /\ last.mg_running /\ last.mo_running
        /\ last.tm = last.mo
        /\ last.mg = last.mo
        /\ last.tm_cursor.i = i /\ last.mg_cursor.i = i

C29_Witness ==
    /\ pc = "done"
    /\ Map.width = ScreenblockWidth /\ Map.height = FullRows
    /\ emitted = ScreenblockWidth * FullRows
    /\ last.tm.i = ScreenblockWidth * FullRows - 1
    /\ last.tm.x_offset = 1 /\ last.tm.y_offset = 1


(***************************************************************************)
(* The empty cell in SpecRemap.  Tile 0 of every atlas of SpecRemap is of  *)
(* a single colour, so the cells of its first meta-tile are equal.         *)
(***************************************************************************)
\* C30: when the first F x F meta-tile of the atlas is of a single colour,
\* every empty grid cell (raw id 0) is emitted as code 0, no flip bit set,
\* at every sub-cell offset.
C30_EmptyCellIsCodeZero ==
    (emitted > 0 /\ LastRaw = 0) =>
        /\ last.tile_id = 0
        /\ last.real_id = y_offset(Map, last.i) * Map.columns + x_offset(Map, last.i)
        /\ ~ Map.bitmap[last.real_id + 1].h_flipped
        /\ ~ Map.bitmap[last.real_id + 1].v_flipped
        /\ last.code = 0

C30_Witness ==
    /\ emitted > 0 /\ LastRaw = 0
    /\ Map.tilesize_factor = 2
    /\ x_offset(Map, last.i) = 1 /\ y_offset(Map, last.i) = 1
    /\ ~ Map.bitmap[last.real_id + 1].unique
    /\ last.code = 0

====
